---- MODULE Spec2Model ----
(***************************************************************************)
(* Model of the WebAR content smoother: the smooth-follow A-Frame          *)
(* component and the OneEuroFilter / LowPassFilter classes of              *)
(* scripts/smoothing.js, together with the dev tuning panel of             *)
(* scripts/ui.js that feeds the component its configuration.               *)
(*                                                                         *)
(* Numbers.  A JavaScript number is modelled as a fixed-point integer in   *)
(* units of 1/S (S = 1000, the 0.001 step of the tuning inputs), or as the *)
(* value NaN.  Products are rounded down to the unit, as a float product   *)
(* is rounded to its precision.  Time stamps and deltaTime are whole       *)
(* milliseconds, as A-Frame hands them to tick().                          *)
(*                                                                         *)
(* Orientation.  The anchor's rotations are taken about one fixed axis, so *)
(* a unit quaternion (cos h, sin h * axis) is represented by its half      *)
(* angle h in units of 1/S rad.  For two such quaternions dot = cos(h1-h2),*)
(* acos(clamp(dot)) = |h1-h2| and slerp(q1, q2, t) has half angle          *)
(* h1 + t*(h2-h1); half angles stay within a quarter turn of each other,   *)
(* so the dot product is positive and slerp never flips sign.              *)
(***************************************************************************)
EXTENDS Integers, Sequences, FiniteSets, TLC

VARIABLES
  sf,            \* the smooth-follow component instance (this.*)
  data,          \* the component's this.data (schema properties)
  tuningParams,  \* ARUI.tuningParams
  storage,       \* localStorage['webar-tuning-params']: <<>> or <<object>>
  nListeners,    \* how many times setupTuningControls registered its listeners
  phase,         \* history: "uninit", "acquired", "tracking" or "lost"
  nTicks,        \* history: number of tick() calls so far
  nEdits,        \* history: number of tuning-panel operations so far
  sinceSnap,     \* history: number of tick() calls since the latest targetFound
  lastTick,      \* history: the raw pose and deltaTime of the latest tick()
  constRun,      \* history: every tick since the snap had the same raw pose, dt > 0, config
  stepRun,       \* history: progress of a 0 -> 1 step on the x axis since the snap
  cfgOK,         \* history: the configuration was in its domain at every tick since the snap
  flt,           \* a OneEuroFilter instance driven directly (filter specification)
  nCalls,        \* history: number of calls made on flt
  fout,          \* history: what the latest call on flt returned
  posBlend,      \* history: the latest two filterPosition calls that blended
  quatBlend,     \* history: the latest two filterQuaternion calls that slerped
  alphaProbe,    \* history: two evaluations of computeAdaptiveAlpha
  components,    \* two smooth-follow instances, component i bound to anchor i
  actor,         \* history: the anchor / component the latest operation was on
  nPairOps,      \* history: number of operations on the two components
  flt2,          \* a second OneEuroFilter, fed the same x inputs as flt
  fout2,         \* history: what the latest call on flt2 returned
  twinAxis,      \* the axis (1 = x, 2 = y, 3 = z) on which flt and flt2 get equal inputs
  rec,           \* the ARRecorder instance (this.*)
  mr,            \* state of the platform's MediaRecorder object
  promise,       \* the promise returned by the latest stopRecording that got past its guard
  delivered,     \* history: the non-empty chunks delivered since the latest successful start
  lastCall,      \* history: the latest startRecording / stopRecording call and its outcome
  seenErrors,    \* history: the error messages the calls have failed with
  overlayConnected, \* the overlay video already feeds a MediaElementAudioSourceNode
  recPc,         \* "idle", or "awaitMic" while a startRecording awaits getUserMedia
  nRecOps,       \* history: number of recorder calls and platform events so far
  arUI,          \* the global ARUI instance: whether it exists, and its flags
  scenePE,       \* style.pointerEvents of the a-scene: "" (unset), "none" or "auto"
  overlayShown,  \* the start overlay is displayed
  video,         \* the overlay video: "paused" or "playing"
  startPending,  \* startExperience calls suspended in unlockMedia
  legacyAttached, \* the start-button listener of smoothing.js sits on ARUI's button
  legacyPending, \* runs of that listener suspended at overlayVideo.play()
  nClicks,       \* history: number of clicks on the Start button
  autoBy,        \* history: the handlers that have set pointer-events to 'auto'
  mediaUnlocked, \* the flag of the DOMContentLoaded block of smoothing.js
  mindarListening, \* startMindAR has added its target listeners
  playedBy,      \* history: per targetFound so far, was media unlocked, who called play()
  lastMarker,    \* history: the marker event handled last, "" before the first
  nUIOps,        \* history: number of page events so far
  lp,            \* one LowPassFilter: its lastValue and hatxprev
  lpLast,        \* history: the last call on it, its value and what it returned
  nLpCalls,      \* history: number of calls on it so far
  acosCall,      \* history: the last dot product handed to Math.acos, and by whom
  seqFlt,        \* a OneEuroFilter whose calls are recorded with their arguments
  seqCall,       \* history: the last call on seqFlt, and the one before it
  seqHist,       \* history: outputs and filterQuaternion timestamps since reset
  nSeq,          \* history: number of calls on seqFlt so far
  rmc,           \* a smooth-follow component that can be removed
  rmListeners,   \* the listeners on its anchor: pairs <<event, function>>
  rmNextFn,      \* the identity the next function made by bind() gets
  rmRemoved,     \* remove() has run on rmc
  rmLast,        \* history: the last operation on rmc or event on its anchor
  nRmOps,        \* history: number of such operations so far
  script,        \* the standalone recorder script: its closure variables and its page
  globals,       \* the singletons arRecorder and arUI and what their init left behind
  panel          \* the tuning panel: its parameters, its toggle label, its listeners

\* the variables of the component and the tuning panel
cvars == <<sf, data, tuningParams, storage, nListeners, phase, nTicks, nEdits,
           sinceSnap, lastTick, constRun, stepRun, cfgOK>>

\* the variables of the directly driven filter
fvars == <<flt, nCalls, fout, posBlend, quatBlend, alphaProbe>>

\* the variables of the pair of components
pvars == <<components, actor, nPairOps>>

\* the variables of the second filter run
wvars == <<flt2, fout2, twinAxis>>

\* the variables outside the component, its panel and the directly driven filter
\* the variables of the recorder
rvars == <<rec, mr, promise, delivered, lastCall, seenErrors, overlayConnected,
           recPc, nRecOps>>

\* the variables of the start overlay
uvars == <<arUI, scenePE, overlayShown, video, startPending, legacyAttached,
           legacyPending, nClicks, autoBy, mediaUnlocked, mindarListening,
           playedBy, lastMarker, nUIOps>>

\* the variables of the single LowPassFilter
lvars == <<lp, lpLast, nLpCalls>>

\* the variable of the angle computations
avars == <<acosCall>>

\* the variables of the filter with recorded calls
svars == <<seqFlt, seqCall, seqHist, nSeq>>

\* the variables of the removable component
mvars == <<rmc, rmListeners, rmNextFn, rmRemoved, rmLast, nRmOps>>

\* the variables of the standalone recorder script, of the singletons and of
\* the tuning panel on its own
zvars == <<script, globals, panel>>

xvars == <<pvars, wvars, rvars, uvars, lvars, avars, svars, mvars, zvars>>

vars == <<cvars, fvars, xvars>>

----------------------------------------------------------------------------
(* Bounds of the model *)

MaxTicks == 3
MaxEdits == 1
MaxCalls == 4
MaxPairOps == 6
MaxRecOps == 6
MaxUIOps == 7

----------------------------------------------------------------------------
(* Numbers *)

S == 1000

\* parseFloat of a string that holds no number
NaN == 0 - 999999999

\* JavaScript null: an unset field, and JSON's encoding of NaN
Null == 0 - 888888888

IsNum(a) == a # NaN /\ a # Null

Add(a, b) == IF a = NaN \/ b = NaN THEN NaN ELSE a + b

Sub(a, b) == IF a = NaN \/ b = NaN THEN NaN ELSE a - b

\* a * b of two fixed-point numbers
Mul(a, b) == IF a = NaN \/ b = NaN THEN NaN ELSE (a * b) \div S

\* a / n of a fixed-point number by a millisecond count n > 0
DivMs(a, n) == IF a = NaN THEN NaN ELSE a \div n

\* Math.min, Math.max: NaN if either argument is NaN
MathMin(a, b) == IF a = NaN \/ b = NaN THEN NaN ELSE IF a <= b THEN a ELSE b

MathMax(a, b) == IF a = NaN \/ b = NaN THEN NaN ELSE IF a >= b THEN a ELSE b

Abs(a) == IF a < 0 THEN 0 - a ELSE a

\* the smaller and the larger of two numbers
Lo(a, b) == IF a <= b THEN a ELSE b
Hi(a, b) == IF a >= b THEN a ELSE b

RECURSIVE SqrtIter(_, _, _)
SqrtIter(n, lo, hi) ==
  IF lo >= hi THEN lo
  ELSE LET mid == (lo + hi + 1) \div 2
       IN IF mid * mid <= n THEN SqrtIter(n, mid, hi) ELSE SqrtIter(n, lo, mid - 1)

\* floor of the square root of a natural number below 2^30
Isqrt(n) == SqrtIter(n, 0, IF n < 32768 THEN n ELSE 32768)

\* Math.sqrt(a*a + b*b + c*c) of fixed-point numbers
SqrtSumSq(a, b, c) ==
  IF a = NaN \/ b = NaN \/ c = NaN THEN NaN ELSE Isqrt(a * a + b * b + c * c)

----------------------------------------------------------------------------
(* THREE.Vector3 and THREE.Quaternion operations used by the component *)

\* mutant of Lerp: "=" written for "+="
Lerp_Assign(x, t, alpha) == Mul(Sub(t, x), alpha)

\* Vector3.lerp(v, alpha): this.x += (v.x - this.x) * alpha, per component
Lerp(x, t, alpha) == Add(x, Mul(Sub(t, x), alpha))

LerpV(p, t, alpha) == [i \in 1..3 |-> Lerp(p[i], t[i], alpha)]

\* Vector3.multiplyScalar
ScaleV(v, k) == [i \in 1..3 |-> Mul(v[i], k)]

\* Vector3.distanceTo
DistanceTo(a, b) == SqrtSumSq(Sub(a[1], b[1]), Sub(a[2], b[2]), Sub(a[3], b[3]))

\* acos(max(-1, min(1, q1.dot(q2)))) of two quaternions given by half angle
AcosDot(q1, q2) == IF q1 = NaN \/ q2 = NaN THEN NaN ELSE Abs(q1 - q2)

\* Quaternion.slerp(qb, t): t = 0 keeps this, t = 1 copies qb, equal
\* quaternions (cosHalfTheta >= 1) keep this, otherwise interpolate
Slerp(q, qb, t) ==
  IF t = 0 THEN q
  ELSE IF t = S THEN qb
  ELSE IF q # NaN /\ q = qb THEN q
  ELSE Add(q, Mul(Sub(qb, q), t))

----------------------------------------------------------------------------
(* smooth-follow: schema defaults and construction *)

DefaultOverscan == 1020
DefaultAlphaMin == 120
DefaultAlphaMax == 220

SchemaDefaults ==
  [overscan |-> DefaultOverscan, alphaMin |-> DefaultAlphaMin, alphaMax |-> DefaultAlphaMax]

\* new OneEuroFilter(mincutoff, beta, dcutoff): the state fields are null;
\* x, y, z and angularVel are the lastValue of the four LowPassFilters
NewOneEuroFilter(mincutoff, beta, dcutoff) ==
  [mincutoff |-> mincutoff, beta |-> beta, dcutoff |-> dcutoff,
   lastTime |-> Null, x |-> Null, y |-> Null, z |-> Null, lastQuat |-> Null, angularVel |-> Null]

\* new OneEuroFilter(): mincutoff = 1.0, beta = 0.0, dcutoff = 1.0
NewFilter == NewOneEuroFilter(S, 0, S)

\* OneEuroFilter.reset
FilterReset(f) ==
  [f EXCEPT !.lastTime = Null, !.x = Null, !.y = Null, !.z = Null,
            !.angularVel = Null, !.lastQuat = Null]

\* mutant of InitComponent: the component starts out visible
InitComponent_Visible(anchor) ==
  [anchor |-> anchor,
   isVisible |-> TRUE,
   snapNextFrame |-> TRUE,
   filter |-> NewFilter,
   position |-> <<0, 0, 0>>,
   quaternion |-> 0,
   scale |-> <<S, S, S>>,
   planeVisible |-> TRUE]

\* smooth-follow.init; smoothGroup is a fresh THREE.Group
InitComponent(anchor) ==
  [anchor |-> anchor,
   isVisible |-> FALSE,
   snapNextFrame |-> TRUE,
   filter |-> NewFilter,
   position |-> <<0, 0, 0>>,
   quaternion |-> 0,
   scale |-> <<S, S, S>>,
   planeVisible |-> TRUE]

\* mutant of onTargetFound: no snap is requested
onTargetFound_NoSnap(c) ==
  [c EXCEPT !.isVisible = TRUE,
            !.filter = FilterReset(c.filter), !.planeVisible = TRUE]

onTargetFound(c) ==
  [c EXCEPT !.isVisible = TRUE, !.snapNextFrame = TRUE,
            !.filter = FilterReset(c.filter), !.planeVisible = TRUE]

onTargetLost(c) == [c EXCEPT !.isVisible = FALSE, !.planeVisible = FALSE]

----------------------------------------------------------------------------
(* smooth-follow.tick *)

computeLinearSpeed(c, raw, deltaTime) ==
  IF deltaTime <= 0 THEN 0
  ELSE DivMs(DistanceTo(raw.position, c.position), deltaTime)

computeAngularSpeed(c, raw, deltaTime) ==
  IF deltaTime <= 0 THEN 0
  ELSE DivMs(AcosDot(c.quaternion, raw.quaternion), deltaTime)

computeAdaptiveAlpha(linearSpeed, angularSpeed, alphaMin, alphaMax) ==
  LET combinedSpeed == SqrtSumSq(linearSpeed, angularSpeed, 0)
      adaptiveAlpha ==
        Add(alphaMin, Mul(Sub(alphaMax, alphaMin), MathMin(S, Mul(combinedSpeed, 2 * S))))
  IN MathMax(alphaMin, MathMin(alphaMax, adaptiveAlpha))

\* mutant of TickRuns: the visibility test left out
TickRuns_AnchorOnly(c) == c.anchor

\* the early return at the top of tick
TickRuns(c) == c.anchor /\ c.isVisible

\* mutant of TickSnap: the position is blended, not copied
TickSnap_Blend(c, d, raw) ==
  [c EXCEPT !.position = LerpV(c.position, raw.position, d.alphaMax),
            !.quaternion = raw.quaternion,
            !.scale = ScaleV(raw.scale, d.overscan),
            !.snapNextFrame = FALSE]

\* the snap branch of tick
TickSnap(c, d, raw) ==
  [c EXCEPT !.position = raw.position,
            !.quaternion = raw.quaternion,
            !.scale = ScaleV(raw.scale, d.overscan),
            !.snapNextFrame = FALSE]

\* the smoothing branch of tick
TickSmooth(c, d, raw, deltaTime) ==
  LET linearSpeed == computeLinearSpeed(c, raw, deltaTime)
      angularSpeed == computeAngularSpeed(c, raw, deltaTime)
      adaptiveAlpha == computeAdaptiveAlpha(linearSpeed, angularSpeed, d.alphaMin, d.alphaMax)
  IN [c EXCEPT !.position = LerpV(c.position, raw.position, adaptiveAlpha),
               !.quaternion = Slerp(c.quaternion, raw.quaternion, adaptiveAlpha),
               !.scale = LerpV(c.scale, ScaleV(raw.scale, d.overscan), adaptiveAlpha)]

tick(c, d, raw, deltaTime) ==
  IF ~TickRuns(c) THEN c
  ELSE IF c.snapNextFrame THEN TickSnap(c, d, raw)
  ELSE TickSmooth(c, d, raw, deltaTime)

----------------------------------------------------------------------------
(* Exact fractions <<n, d>> with d > 0, for the low-pass weight *)

RECURSIVE Gcd(_, _)
Gcd(a, b) == IF b = 0 THEN a ELSE Gcd(b, a % b)

Rat(n, d) == LET g == Gcd(Abs(n), d) IN <<n \div g, d \div g>>

RatMul(a, b) == Rat(a[1] * b[1], a[2] * b[2])

\* 1 / a, for a > 0
RatInv(a) == <<a[2], a[1]>>

\* a + k, for an integer k
RatAddInt(a, k) == Rat(a[1] + k * a[2], a[2])

\* a / b, for b > 0, common factors removed before multiplying
RatDiv(a, b) ==
  LET g1 == Gcd(Abs(a[1]), b[1])
      g2 == Gcd(a[2], b[2])
  IN IF a[1] = 0 THEN <<0, 1>>
     ELSE Rat((a[1] \div g1) * (b[2] \div g2), (a[2] \div g2) * (b[1] \div g1))

RatLeq(a, b) == a[1] * b[2] <= b[1] * a[2]

RatLess(a, b) == a[1] * b[2] < b[1] * a[2]

\* Math.PI, as the fraction PiNum / PiDen
PiNum == 22
PiDen == 7

----------------------------------------------------------------------------
(* LowPassFilter and OneEuroFilter (smoothing.js) *)

\* mutant of LowPassAlpha: the quotient taken the other way round
LowPassAlpha_Swapped(cutoff, deltaTime) ==
  LET RC == RatInv(RatMul(<<cutoff, S>>, <<2 * PiNum, PiDen>>))
  IN RatDiv(RatAddInt(RC, deltaTime), RC)

\* LowPassFilter.filter: RC = 1.0 / (cutoff * 2 * Math.PI) and
\* alpha = RC / (RC + deltaTime), the weight applied to the new value
LowPassAlpha(cutoff, deltaTime) ==
  LET RC == RatInv(RatMul(<<cutoff, S>>, <<2 * PiNum, PiDen>>))
  IN RatDiv(RC, RatAddInt(RC, deltaTime))

\* mutant of LowPassFilter: no first-invocation branch, an empty history
\* blends as 0
LowPassFilter_NoFirst(lastValue, value, cutoff, deltaTime) ==
  LET alpha == LowPassAlpha(cutoff, deltaTime)
      last == IF lastValue = Null THEN 0 ELSE lastValue
  IN (alpha[1] * value + (alpha[2] - alpha[1]) * last) \div alpha[2]

\* LowPassFilter.filter: the new lastValue, which is also the value returned;
\* alpha * value + (1 - alpha) * lastValue, rounded down to the unit
LowPassFilter(lastValue, value, cutoff, deltaTime) ==
  IF lastValue = Null THEN value
  ELSE LET alpha == LowPassAlpha(cutoff, deltaTime)
       IN (alpha[1] * value + (alpha[2] - alpha[1]) * lastValue) \div alpha[2]

\* OneEuroFilter.computeRate
computeRate(f, position, deltaTime) ==
  IF f.x = Null THEN 0
  ELSE DivMs(DistanceTo(position, <<f.x, f.y, f.z>>), deltaTime)

\* OneEuroFilter.computeAngularRate
computeAngularRate(f, quaternion, deltaTime) ==
  IF f.lastQuat = Null THEN 0
  ELSE DivMs(AcosDot(f.lastQuat, quaternion), deltaTime)

\* the adaptive cutoff: this.mincutoff + this.beta * rate
AdaptiveCutoff(f, rate) == Add(f.mincutoff, Mul(f.beta, rate))

\* OneEuroFilter.filterPosition: the filter afterwards, the vector returned,
\* and a record of the blend when the three channels blended with history
filterPosition(f, position, timestamp) ==
  IF f.lastTime = Null
  THEN [f |-> [f EXCEPT !.lastTime = timestamp], out |-> position, blend |-> <<>>]
  ELSE LET deltaTime == timestamp - f.lastTime
           f1 == [f EXCEPT !.lastTime = timestamp]
       IN IF deltaTime <= 0
          THEN [f |-> f1, out |-> position, blend |-> <<>>]
          ELSE LET rate == computeRate(f, position, deltaTime)
                   cutoff == AdaptiveCutoff(f, rate)
                   filteredX == LowPassFilter(f.x, position[1], cutoff, deltaTime)
                   filteredY == LowPassFilter(f.y, position[2], cutoff, deltaTime)
                   filteredZ == LowPassFilter(f.z, position[3], cutoff, deltaTime)
                   filtered == <<filteredX, filteredY, filteredZ>>
               IN [f |-> [f1 EXCEPT !.x = filteredX, !.y = filteredY, !.z = filteredZ],
                   out |-> filtered,
                   blend |-> IF f.x = Null THEN <<>>
                             ELSE <<[dt |-> deltaTime, rate |-> rate, cutoff |-> cutoff,
                                     weight |-> LowPassAlpha(cutoff, deltaTime),
                                     prev |-> <<f.x, f.y, f.z>>, value |-> position,
                                     out |-> filtered]>>]

\* OneEuroFilter.filterQuaternion: the filter afterwards, the quaternion
\* returned, and a record of the slerp when one was made
filterQuaternion(f, quaternion, timestamp) ==
  IF f.lastTime = Null \/ f.lastQuat = Null
  THEN [f |-> [f EXCEPT !.lastQuat = quaternion], out |-> quaternion, blend |-> <<>>]
  ELSE LET deltaTime == timestamp - f.lastTime
           f1 == [f EXCEPT !.lastTime = timestamp]
       IN IF deltaTime <= 0
          THEN [f |-> f1, out |-> quaternion, blend |-> <<>>]
          ELSE LET rate == computeAngularRate(f, quaternion, deltaTime)
                   cutoff == AdaptiveCutoff(f, rate)
                   alpha == MathMin(S, cutoff * deltaTime)
                   slerped == Slerp(f.lastQuat, quaternion, alpha)
               IN [f |-> [f1 EXCEPT !.lastQuat = slerped],
                   out |-> slerped,
                   blend |-> <<[dt |-> deltaTime, rate |-> rate, cutoff |-> cutoff,
                                alpha |-> alpha]>>]

----------------------------------------------------------------------------
(* ARUI: tuning parameters, persistence and the tuning panel (ui.js) *)

Params == {"filterMinCF", "filterBeta", "alphaMin", "alphaMax", "overscan"}

\* the defaults of the ARUI constructor and of resetTuningParams
DefaultTuning ==
  [filterMinCF |-> 20, filterBeta |-> 60 * S, alphaMin |-> 120, alphaMax |-> 220,
   overscan |-> 1020, smoothingEnabled |-> TRUE]

\* JSON.stringify of a number: NaN is written as null
JSONNumber(v) == IF v = NaN THEN Null ELSE v

\* JSON.parse(JSON.stringify(tp))
JSONRoundTrip(tp) ==
  [filterMinCF |-> JSONNumber(tp.filterMinCF), filterBeta |-> JSONNumber(tp.filterBeta),
   alphaMin |-> JSONNumber(tp.alphaMin), alphaMax |-> JSONNumber(tp.alphaMax),
   overscan |-> JSONNumber(tp.overscan), smoothingEnabled |-> tp.smoothingEnabled]

\* saveTuningParams: localStorage.setItem('webar-tuning-params', JSON.stringify(..))
saveTuningParams(tp) == <<JSONRoundTrip(tp)>>

\* loadTuningParams: the saved object, spread over the constructor's defaults
loadTuningParams(st) == IF st = <<>> THEN DefaultTuning ELSE st[1]

\* A-Frame's parse of a number property: null or undefined takes the schema default
SchemaNumber(v, default) == IF v = Null THEN default ELSE v

\* mutant of applyTuningParams: alphaMin is left at what the schema gave it
applyTuningParams_Torn(tp) ==
  [overscan |-> SchemaNumber(tp.overscan, DefaultOverscan),
   alphaMin |-> DefaultAlphaMin,
   alphaMax |-> SchemaNumber(tp.alphaMax, DefaultAlphaMax)]

\* applyTuningParams: setAttribute('smooth-follow', {alphaMin, alphaMax, overscan})
applyTuningParams(tp) ==
  [overscan |-> SchemaNumber(tp.overscan, DefaultOverscan),
   alphaMin |-> SchemaNumber(tp.alphaMin, DefaultAlphaMin),
   alphaMax |-> SchemaNumber(tp.alphaMax, DefaultAlphaMax)]

\* updateValue: tuningParams[param] = parseFloat(input.value)
updateValue(tp, param, value) == [tp EXCEPT ![param] = value]

\* the toggle-smoothing click, run by each of the n registered listeners
toggleSmoothing(tp, n) ==
  [tp EXCEPT !.smoothingEnabled = IF n % 2 = 1 THEN ~tp.smoothingEnabled ELSE tp.smoothingEnabled]

----------------------------------------------------------------------------
(* Inputs *)

\* values a range input can hold: inside [min, max] of its element
SliderValues(p) ==
  CASE p = "filterMinCF" -> {1}
    [] p = "filterBeta" -> {200 * S}
    [] p = "alphaMin" -> {500}
    [] p = "alphaMax" -> {S}
    [] p = "overscan" -> {1100}

\* what parseFloat can return for a number input that was typed into:
\* any number, in range or not, or NaN for an empty or invalid field
TypedValues(p) ==
  SliderValues(p) \cup
  (CASE p = "alphaMin" -> {NaN}
     [] p = "overscan" -> {500}
     [] OTHER -> {})

PoseA == [position |-> <<0, 500, -300>>, quaternion |-> 0, scale |-> <<S, S, S>>]
PoseB == [position |-> <<S, 500, -300>>, quaternion |-> 0, scale |-> <<S, S, S>>]
PoseC == [position |-> <<S, 500, -300>>, quaternion |-> 400, scale |-> <<2 * S, 2 * S, 2 * S>>]

\* raw poses the anchor's matrixWorld decomposes to
RawPoses == {PoseA, PoseB, PoseC}

\* deltaTime values handed to tick (milliseconds)
DeltaTimes == {0 - 16, 0, 16}

\* the documented domain of the component's configuration
InDomain(d) ==
  /\ d.alphaMin # NaN /\ d.alphaMax # NaN /\ d.overscan # NaN
  /\ 0 < d.alphaMin /\ d.alphaMin <= d.alphaMax /\ d.alphaMax <= S
  /\ d.overscan >= S

----------------------------------------------------------------------------
(* State machine of one page: the component, its anchor's events, the panel *)

\* the filter specification's variables before any call
----------------------------------------------------------------------------
(* ARRecorder (recorder.js) *)

\* new ARRecorder() followed by init(): the mix canvas is created and
\* appended to the document, nothing else is set
NewRecorder ==
  [isRecording |-> FALSE,
   mediaRecorder |-> FALSE,
   audioContext |-> FALSE,
   mixCanvas |-> TRUE,
   animationFrame |-> FALSE,
   recordedChunks |-> <<>>,
   destinationStream |-> FALSE]

\* ARRecorder.cleanup
cleanup(r) ==
  [r EXCEPT !.animationFrame = FALSE,
            !.audioContext = FALSE,
            !.mixCanvas = FALSE,
            !.mediaRecorder = FALSE,
            !.recordedChunks = <<>>,
            !.destinationStream = FALSE,
            !.isRecording = FALSE]

\* mutant of startWhileRecording: the guard sits inside the try block
startWhileRecording_Cleanup(r) == cleanup(r)

\* startRecording called while isRecording: throws before touching anything
startWhileRecording(r) == r

\* stopRecording called while not recording: throws before touching anything
stopWhileIdle(r) == r

\* setupAudioMixing up to the getUserMedia call: a new AudioContext is stored
\* before createMediaElementSource is tried
setupAudioMixing(r) == [r EXCEPT !.audioContext = TRUE]

\* startRecording from the getUserMedia call on: the rest of setupAudioMixing
\* calls a method of this.audioContext and setupVideoMixing reads
\* this.mixCanvas.width; either throws when a cleanup has nulled the field
\* (caught: cleanup, rethrow); otherwise the MediaRecorder is created and
\* started, recordedChunks emptied, isRecording set and the mixing loop begun
startRecordingRest(r) ==
  IF ~r.audioContext \/ ~r.mixCanvas
  THEN [r |-> cleanup(r), ok |-> FALSE]
  ELSE [r |-> [r EXCEPT !.destinationStream = TRUE,
                        !.mediaRecorder = TRUE,
                        !.recordedChunks = <<>>,
                        !.isRecording = TRUE,
                        !.animationFrame = TRUE],
        ok |-> TRUE]

\* mediaRecorder.ondataavailable
ondataavailable(r, size) ==
  IF size > 0 THEN [r EXCEPT !.recordedChunks = Append(@, size)] ELSE r

\* stopRecording past its guard, up to mediaRecorder.stop()
stopRecordingBegin(r) == [r EXCEPT !.isRecording = FALSE, !.animationFrame = FALSE]

\* the one-time 'stop' listener of stopRecording: the promise it settles.
\* Reading this.mediaRecorder.mimeType throws when mediaRecorder is null;
\* the catch rejects the promise
onStop(r) ==
  IF r.mediaRecorder
  THEN [state |-> "resolved", blob |-> r.recordedChunks]
  ELSE [state |-> "rejected", blob |-> <<>>]

\* the recorder and the promise after the platform dispatched 'stop' to the
\* onstop handler (cleanup) and to the onStop listener, in the given order
dispatchStop(r, order, hasListener) ==
  IF ~hasListener THEN [r |-> cleanup(r), promise |-> [state |-> "none", blob |-> <<>>]]
  ELSE IF order = "handlerFirst"
  THEN [r |-> cleanup(r), promise |-> onStop(cleanup(r))]
  ELSE [r |-> cleanup(r), promise |-> onStop(r)]

\* the recorder right after initRecorder()
RecorderIdle ==
  /\ rec = NewRecorder
  /\ mr = "none"
  /\ promise = [state |-> "none", blob |-> <<>>]
  /\ delivered = <<>>
  /\ lastCall = [op |-> "none", outcome |-> "none", n |-> 0]
  /\ seenErrors = {}
  /\ overlayConnected = FALSE
  /\ recPc = "idle"
  /\ nRecOps = 0

----------------------------------------------------------------------------
(* ARUI: start overlay and scene pointer events (ui.js) *)

\* let arUI = null
NoUI == [exists |-> FALSE, isStarted |-> FALSE, audioUnlocked |-> FALSE]

\* new ARUI()
NewUI == [exists |-> TRUE, isStarted |-> FALSE, audioUnlocked |-> FALSE]

\* mutant of disableScenePointerEvents: the style is left as it is
disableScenePointerEvents_Skip(pe) == pe

\* ARUI.disableScenePointerEvents (the page has its a-scene)
disableScenePointerEvents(pe) == "none"

\* ARUI.enableScenePointerEvents
enableScenePointerEvents(pe) == "auto"

\* startExperience after unlockMedia returned: the flags of the ARUI
startExperienceFlags(ui) == [ui EXCEPT !.audioUnlocked = TRUE, !.isStarted = TRUE]

\* the targetFound listeners that call play() on the overlay video: the one
\* of setupTargetListeners always, the one of startMindAR if audioUnlocked,
\* the one of smoothing.js if mediaUnlocked
targetFoundPlays(ui, listening, unlocked) ==
  {"setupTargetListeners"}
    \cup (IF listening /\ ui.audioUnlocked THEN {"startMindAR"} ELSE {})
    \cup (IF unlocked THEN {"smoothing.js"} ELSE {})

\* THREE.Quaternion.dot of two quaternions <<x, y, z, w>>
QuatDot(a, b) == (a[1] * b[1] + a[2] * b[2] + a[3] * b[3] + a[4] * b[4]) \div S

\* mutant of AcosArgument: the dot product handed to Math.acos as it is
AcosArgument_Unclamped(dot) == dot

\* the argument of Math.acos: Math.max(-1, Math.min(1, dot))
AcosArgument(dot) == MathMax(0 - S, MathMin(S, dot))

\* no angle computed yet
AcosIdle == acosCall = [by |-> "none", q1 |-> <<0, 0, 0, S>>, q2 |-> <<0, 0, 0, S>>,
                        dot |-> S, arg |-> S]

\* Function.prototype.bind: every call makes a new function object
Bind(nextFn) == nextFn

\* EventTarget.addEventListener
addEventListener(ls, event, fn) == ls \cup {<<event, fn>>}

\* EventTarget.removeEventListener: removes the listener that is this very
\* function, if it is registered
removeEventListener(ls, event, fn) == ls \ {<<event, fn>>}

\* the listeners init registers on the anchor: two functions made by bind()
InitListeners ==
  addEventListener(addEventListener({}, "targetFound", Bind(1)), "targetLost", Bind(2))

\* smooth-follow.remove: the listeners left on the anchor
RemoveListeners(ls, nextFn) ==
  removeEventListener(removeEventListener(ls, "targetFound", Bind(nextFn)),
                      "targetLost", Bind(nextFn + 1))

\* the text setupTuningControls and the toggle listener give the button
toggleLabel(enabled) == IF enabled THEN "Disable Smoothing" ELSE "Enable Smoothing"

\* the panel as createTuningPanel and the first setupTuningControls leave it,
\* for tuning parameters tp: one listener on every control
NewPanel(tp) ==
  [tuningParams |-> tp, label |-> toggleLabel(tp.smoothingEnabled), nListeners |-> 1,
   last |-> "none", runs |-> 0, nOps |-> 0]

\* a click on Toggle Smoothing: every listener on the button runs
toggleClick(pn) ==
  LET tp == toggleSmoothing(pn.tuningParams, pn.nListeners)
  IN [pn EXCEPT !.tuningParams = tp, !.label = toggleLabel(tp.smoothingEnabled),
                !.last = "toggle", !.runs = pn.nListeners]

\* a click on Reset: every listener on the button runs resetTuningParams,
\* and each run ends in setupTuningControls, which adds one listener more
\* to every control
resetClick(pn) ==
  [pn EXCEPT !.tuningParams = DefaultTuning,
             !.label = toggleLabel(DefaultTuning.smoothingEnabled),
             !.nListeners = 2 * pn.nListeners,
             !.last = "reset", !.runs = pn.nListeners]

\* an 'input' event of a number input: every listener on it runs updateValue
inputEvent(pn, param, value) ==
  [pn EXCEPT !.tuningParams = updateValue(pn.tuningParams, param, value),
             !.last = "input", !.runs = pn.nListeners]

\* the panel of a page just loaded, nothing saved
PanelIdle == panel = NewPanel(DefaultTuning)

\* the number of setup steps ARUI.init runs
UISetupSteps == 7

\* let arRecorder = null: no instance, so no field of it is set
NullRecorder == [exists |-> FALSE, webglCanvas |-> FALSE, cameraVideo |-> FALSE,
                 mixCanvas |-> FALSE]

\* let arUI = null; steps is the number of setup steps init has completed
NullUI == [exists |-> FALSE, steps |-> 0]

\* new ARRecorder() followed by init(options) on a page where the WebGL
\* canvas and the camera video are present or not: the instance as init
\* leaves it, and whether init threw
ARRecorderInit(webgl, camera) ==
  IF ~webgl
  THEN [r |-> [exists |-> TRUE, webglCanvas |-> FALSE, cameraVideo |-> FALSE,
               mixCanvas |-> FALSE],
        threw |-> TRUE]
  ELSE IF ~camera
  THEN [r |-> [exists |-> TRUE, webglCanvas |-> TRUE, cameraVideo |-> FALSE,
               mixCanvas |-> FALSE],
        threw |-> TRUE]
  ELSE [r |-> [exists |-> TRUE, webglCanvas |-> TRUE, cameraVideo |-> TRUE,
               mixCanvas |-> TRUE],
        threw |-> FALSE]

\* new ARUI() followed by init(), where a DOM call throws in setup step
\* failAt (0: in none)
ARUIInit(failAt) ==
  IF failAt = 0
  THEN [u |-> [exists |-> TRUE, steps |-> UISetupSteps], threw |-> FALSE]
  ELSE [u |-> [exists |-> TRUE, steps |-> failAt - 1], threw |-> TRUE]

\* initRecorder(options): the global is assigned before init is called
initRecorder(g, webgl, camera) ==
  IF ~g.arRecorder.exists
  THEN LET i == ARRecorderInit(webgl, camera)
       IN [g EXCEPT !.arRecorder = i.r,
                    !.last = [op |-> "initRecorder", threw |-> i.threw,
                              returned |-> ~i.threw]]
  ELSE [g EXCEPT !.last = [op |-> "initRecorder", threw |-> FALSE, returned |-> TRUE]]

\* initUI(): the global is assigned before init is called
initUI(g, failAt) ==
  IF ~g.arUI.exists
  THEN LET i == ARUIInit(failAt)
       IN [g EXCEPT !.arUI = i.u,
                    !.last = [op |-> "initUI", threw |-> i.threw, returned |-> ~i.threw]]
  ELSE [g EXCEPT !.last = [op |-> "initUI", threw |-> FALSE, returned |-> TRUE]]

\* getRecorder() returns a non-null recorder
getRecorder(g) == g.arRecorder.exists

\* getUI() returns a non-null ARUI
getUI(g) == g.arUI.exists

\* the standalone script after DOMContentLoaded: mediaRecorder undefined (0),
\* no MediaRecorder created, nothing scheduled or painted
NewScript(muted) ==
  [recorders |-> <<>>, mediaRecorder |-> 0, recordedChunks |-> <<>>,
   audioStream |-> FALSE, audioContext |-> FALSE, mixedStream |-> 0,
   muted |-> muted, connected |-> FALSE, pending |-> 0,
   buttonText |-> "Record", download |-> <<>>, downloadShown |-> FALSE,
   scheduled |-> 0, painted |-> 0, frames |-> 0, nOps |-> 0]

ScriptIdle == script = NewScript(TRUE)

\* the page before initRecorder or initUI has been called
GlobalsIdle ==
  globals = [arRecorder |-> NullRecorder, arUI |-> NullUI,
             last |-> [op |-> "none", threw |-> FALSE, returned |-> FALSE],
             nOps |-> 0]

\* the component after init, its two listeners on the anchor
RemoveIdle ==
  /\ rmc = InitComponent(TRUE)
  /\ rmListeners = InitListeners
  /\ rmNextFn = 3
  /\ rmRemoved = FALSE
  /\ rmLast = "init"
  /\ nRmOps = 0

\* no call made yet
NoCall == [op |-> "none", t |-> 0, dt |-> Null, branch |-> "none", history |-> FALSE,
           unchanged |-> TRUE]

\* a OneEuroFilter as constructed, no call recorded
SeqIdle ==
  /\ seqFlt = NewFilter
  /\ seqCall = [last |-> NoCall, before |-> NoCall,
                rawP |-> <<0, 0, 0>>, outP |-> <<0, 0, 0>>,
                rawQ |-> 0, outQ |-> 0, runQ |-> Null]
  /\ seqHist = [hasP |-> FALSE, outP |-> <<0, 0, 0>>, hasQ |-> FALSE, outQ |-> 0,
                nQ |-> 0, qTime |-> Null, qIncreasing |-> TRUE]
  /\ nSeq = 0

\* new LowPassFilter()
NewLowPassFilter == [lastValue |-> Null, hatxprev |-> Null]

\* LowPassFilter.reset
LowPassReset(l) == [l EXCEPT !.lastValue = Null, !.hatxprev = Null]

\* a LowPassFilter as constructed, not yet called
LowPassIdle ==
  /\ lp = NewLowPassFilter
  /\ lpLast = [op |-> "none", first |-> FALSE, value |-> 0, out |-> 0,
               blended |-> FALSE, before |-> 0]
  /\ nLpCalls = 0

\* the page before any script has touched the overlay or the scene
PageIdle ==
  /\ arUI = NoUI
  /\ scenePE = ""
  /\ overlayShown = FALSE
  /\ video = "paused"
  /\ startPending = 0
  /\ legacyAttached = FALSE
  /\ legacyPending = 0
  /\ nClicks = 0
  /\ autoBy = {}
  /\ mediaUnlocked = FALSE
  /\ mindarListening = FALSE
  /\ playedBy = {}
  /\ lastMarker = ""
  /\ nUIOps = 0

\* the two components as init made them, each with its own anchor
PairIdle ==
  /\ components = [i \in 1..2 |-> InitComponent(TRUE)]
  /\ actor = 0
  /\ nPairOps = 0

\* the second filter before any call
TwinIdle ==
  /\ flt2 = NewFilter
  /\ fout2 = [op |-> "none", position |-> <<0, 0, 0>>, quaternion |-> 0]
  /\ twinAxis = 1

XIdle == PairIdle /\ TwinIdle /\ RecorderIdle /\ PageIdle /\ LowPassIdle /\ AcosIdle /\ SeqIdle /\ RemoveIdle
           /\ ScriptIdle /\ GlobalsIdle /\ PanelIdle

\* the single component and its panel as the page load left them
ComponentIdle ==
  /\ sf = InitComponent(TRUE)
  /\ data = SchemaDefaults
  /\ storage = <<>>
  /\ tuningParams = loadTuningParams(<<>>)
  /\ nListeners = 1
  /\ phase = "uninit"
  /\ nTicks = 0
  /\ nEdits = 0
  /\ sinceSnap = 0
  /\ lastTick = [raw |-> PoseA, dt |-> 0]
  /\ constRun = FALSE
  /\ stepRun = "none"
  /\ cfgOK = FALSE

FilterIdle ==
  /\ flt = NewFilter
  /\ nCalls = 0
  /\ fout = [op |-> "none", position |-> <<0, 0, 0>>, quaternion |-> 0]
  /\ posBlend = <<>>
  /\ quatBlend = <<>>
  /\ alphaProbe = <<>>

Init ==
  /\ FilterIdle
  /\ XIdle
  /\ sf \in {InitComponent(a) : a \in BOOLEAN}
  /\ data = SchemaDefaults
  /\ storage = <<>>
  /\ tuningParams = loadTuningParams(<<>>)
  /\ nListeners = 1
  /\ phase = "uninit"
  /\ nTicks = 0
  /\ nEdits = 0
  /\ sinceSnap = 0
  /\ lastTick = [raw |-> PoseA, dt |-> 0]
  /\ constRun = FALSE
  /\ stepRun = "none"
  /\ cfgOK = FALSE

UIUnchanged == UNCHANGED <<data, tuningParams, storage, nListeners, nEdits, fvars, xvars>>

\* the anchor dispatches targetFound; init registered the listener only with an anchor
TargetFound ==
  /\ sf.anchor
  /\ sf' = onTargetFound(sf)
  /\ phase' = "acquired"
  /\ sinceSnap' = 0
  /\ constRun' = FALSE
  /\ stepRun' = "none"
  /\ cfgOK' = FALSE
  /\ UNCHANGED <<nTicks, lastTick>>
  /\ UIUnchanged

TargetLost ==
  /\ sf.anchor
  /\ sf' = onTargetLost(sf)
  /\ phase' = "lost"
  /\ sinceSnap' = 0
  /\ constRun' = FALSE
  /\ stepRun' = "none"
  /\ cfgOK' = FALSE
  /\ UNCHANGED <<nTicks, lastTick>>
  /\ UIUnchanged

\* the position steps from x = 0 to x = 1 with the other axes unchanged
IsStepUp(from, to) ==
  from[1] = 0 /\ to[1] = S /\ from[2] = to[2] /\ from[3] = to[3]

NextStepRun(raw, dt) ==
  IF phase = "acquired"
  THEN (IF raw.position[1] = 0 /\ dt > 0 THEN "low" ELSE "broken")
  ELSE IF phase # "tracking" \/ dt # lastTick.dt THEN "broken"
  ELSE IF stepRun \in {"low", "high"} /\ raw.position = lastTick.raw.position THEN stepRun
  ELSE IF stepRun = "low" /\ IsStepUp(lastTick.raw.position, raw.position) THEN "high"
  ELSE "broken"

\* A-Frame calls tick(time, deltaTime) with the anchor at some raw pose
Tick(raw, dt) ==
  /\ nTicks < MaxTicks
  /\ sf' = tick(sf, data, raw, dt)
  /\ nTicks' = nTicks + 1
  /\ lastTick' = [raw |-> raw, dt |-> dt]
  /\ phase' = IF phase = "acquired" THEN "tracking" ELSE phase
  /\ sinceSnap' = IF phase \in {"acquired", "tracking"} THEN sinceSnap + 1 ELSE sinceSnap
  /\ constRun' = IF phase = "acquired" THEN dt > 0
                 ELSE phase = "tracking" /\ constRun /\ raw = lastTick.raw /\ dt = lastTick.dt
  /\ stepRun' = NextStepRun(raw, dt)
  /\ cfgOK' = IF phase = "acquired" THEN InDomain(data)
              ELSE phase = "tracking" /\ cfgOK /\ InDomain(data)
  /\ UIUnchanged

\* a tuning operation left the panel with tuning parameters tp
Tuned(tp) ==
  /\ nEdits < MaxEdits
  /\ nEdits' = nEdits + 1
  /\ tuningParams' = tp
  /\ data' = applyTuningParams(tp)
  /\ constRun' = (constRun /\ data' = data)
  /\ UNCHANGED <<sf, phase, nTicks, sinceSnap, lastTick, stepRun, cfgOK, fvars, xvars>>

\* 'input' event of a number input: updateValue
EditNumber(p, v) ==
  /\ Tuned(updateValue(tuningParams, p, v))
  /\ storage' = saveTuningParams(tuningParams')
  /\ UNCHANGED nListeners

\* 'input' event of a range input: copy to the number input, then updateValue
MoveSlider(p, v) ==
  /\ Tuned(updateValue(tuningParams, p, v))
  /\ storage' = saveTuningParams(tuningParams')
  /\ UNCHANGED nListeners

\* click on Toggle Smoothing: every registered listener flips and applies
ToggleSmoothing ==
  /\ Tuned(toggleSmoothing(tuningParams, nListeners))
  /\ UNCHANGED <<storage, nListeners>>

\* click on Reset: every registered listener runs resetTuningParams, which
\* saves, applies and calls setupTuningControls again
ResetTuning ==
  /\ Tuned(DefaultTuning)
  /\ storage' = saveTuningParams(DefaultTuning)
  /\ nListeners' = 2 * nListeners

\* the page is loaded again: new component, new ARUI reading localStorage
Reload ==
  /\ sf' = InitComponent(sf.anchor)
  /\ data' = SchemaDefaults
  /\ tuningParams' = loadTuningParams(storage)
  /\ nListeners' = 1
  /\ phase' = "uninit"
  /\ sinceSnap' = 0
  /\ constRun' = FALSE
  /\ stepRun' = "none"
  /\ cfgOK' = FALSE
  /\ UNCHANGED <<storage, nTicks, nEdits, lastTick, fvars, xvars>>

Next ==
  \/ TargetFound
  \/ TargetLost
  \/ \E raw \in RawPoses, dt \in DeltaTimes : Tick(raw, dt)
  \/ \E p \in Params : \E v \in TypedValues(p) : EditNumber(p, v)
  \/ \E p \in Params : \E v \in SliderValues(p) : MoveSlider(p, v)
  \/ ToggleSmoothing
  \/ ResetTuning
  \/ Reload

Spec == Init /\ [][Next]_vars

----------------------------------------------------------------------------
(* State machine of a OneEuroFilter driven directly by a caller *)

\* constructor arguments tried: mincutoff 0.02 and 1.0, beta 0 and 0.5
MinCutoffs == {20, S}
Betas == {0, 500}

Positions == {<<0, 0, 0>>, <<S, 0, 0>>, <<S, 500, -300>>}
Quaternions == {0, 400}

\* time stamps are performance.now() readings: milliseconds after, at or
\* before the filter's lastTime
Increments == {0 - 16, 0, 16, 33}

Timestamps(f) == {(IF f.lastTime = Null THEN 100 ELSE f.lastTime) + i : i \in Increments}

\* motion speeds and configurations handed to computeAdaptiveAlpha
Speeds == {0, 100, 600}
AlphaRanges == {<<DefaultAlphaMin, DefaultAlphaMax>>}

\* the latest two entries of a history
Latest2(h) == IF Len(h) > 2 THEN SubSeq(h, Len(h) - 1, Len(h)) ELSE h

InitFilter ==
  /\ XIdle
  /\ flt \in {NewOneEuroFilter(m, b, S) : m \in MinCutoffs, b \in Betas}
  /\ nCalls = 0
  /\ fout = [op |-> "none", position |-> <<0, 0, 0>>, quaternion |-> 0]
  /\ posBlend = <<>>
  /\ quatBlend = <<>>
  /\ alphaProbe = <<>>
  /\ sf = InitComponent(TRUE)
  /\ data = SchemaDefaults
  /\ storage = <<>>
  /\ tuningParams = loadTuningParams(<<>>)
  /\ nListeners = 1
  /\ phase = "uninit"
  /\ nTicks = 0
  /\ nEdits = 0
  /\ sinceSnap = 0
  /\ lastTick = [raw |-> PoseA, dt |-> 0]
  /\ constRun = FALSE
  /\ stepRun = "none"
  /\ cfgOK = FALSE

FilterPosition(position, timestamp) ==
  LET r == filterPosition(flt, position, timestamp)
  IN /\ nCalls < MaxCalls
     /\ nCalls' = nCalls + 1
     /\ flt' = r.f
     /\ fout' = [op |-> "filterPosition", position |-> r.out, quaternion |-> fout.quaternion]
     /\ posBlend' = Latest2(posBlend \o r.blend)
     /\ UNCHANGED <<quatBlend, alphaProbe, cvars, xvars>>

FilterQuaternion(quaternion, timestamp) ==
  LET r == filterQuaternion(flt, quaternion, timestamp)
  IN /\ nCalls < MaxCalls
     /\ nCalls' = nCalls + 1
     /\ flt' = r.f
     /\ fout' = [op |-> "filterQuaternion", position |-> fout.position, quaternion |-> r.out]
     /\ quatBlend' = Latest2(quatBlend \o r.blend)
     /\ UNCHANGED <<posBlend, alphaProbe, cvars, xvars>>

FilterResetCall ==
  /\ nCalls < MaxCalls
  /\ nCalls' = nCalls + 1
  /\ flt' = FilterReset(flt)
  /\ fout' = [fout EXCEPT !.op = "reset"]
  /\ UNCHANGED <<posBlend, quatBlend, alphaProbe, cvars, xvars>>

\* computeAdaptiveAlpha evaluated for two linear speeds, all else equal
ProbeAdaptiveAlpha(lin1, lin2, ang, range) ==
  /\ lin1 < lin2
  /\ alphaProbe' = <<[lin1 |-> lin1, lin2 |-> lin2, ang |-> ang,
                      a1 |-> computeAdaptiveAlpha(lin1, ang, range[1], range[2]),
                      a2 |-> computeAdaptiveAlpha(lin2, ang, range[1], range[2])]>>
  /\ UNCHANGED <<flt, nCalls, fout, posBlend, quatBlend, cvars, xvars>>

NextFilter ==
  \/ \E p \in Positions : \E t \in Timestamps(flt) : FilterPosition(p, t)
  \/ \E q \in Quaternions : \E t \in Timestamps(flt) : FilterQuaternion(q, t)
  \/ FilterResetCall
  \/ \E l1, l2 \in Speeds : \E r \in AlphaRanges : ProbeAdaptiveAlpha(l1, l2, 0, r)

SpecFilter == InitFilter /\ [][NextFilter]_vars

----------------------------------------------------------------------------
(* State machine of two smooth-follow components on two anchors *)

\* the anchor whose events component i listens to (init: this.data.anchor)
BoundTo == [i \in 1..2 |-> i]

\* raw poses and deltaTimes of the ticks of the two components
PairPoses == RawPoses
PairDeltaTimes == {0, 16}

\* the listener a component registered for an event of its anchor
Listener(c, event) ==
  IF event = "targetFound" THEN onTargetFound(c) ELSE onTargetLost(c)

\* mutant of Dispatch: the listeners of every component run
Dispatch_All(cs, a, event) == [i \in 1..2 |-> Listener(cs[i], event)]

\* an event dispatched on anchor a runs the listener of each component that
\* registered it on that anchor
Dispatch(cs, a, event) ==
  [i \in 1..2 |-> IF BoundTo[i] = a THEN Listener(cs[i], event) ELSE cs[i]]

InitPair ==
  /\ PairIdle
  /\ TwinIdle
  /\ RecorderIdle
  /\ PageIdle
  /\ LowPassIdle
  /\ AcosIdle
  /\ SeqIdle
  /\ RemoveIdle
  /\ ScriptIdle
  /\ GlobalsIdle
  /\ PanelIdle
  /\ ComponentIdle
  /\ FilterIdle

PairStep(who) ==
  /\ nPairOps < MaxPairOps
  /\ nPairOps' = nPairOps + 1
  /\ actor' = who
  /\ UNCHANGED <<cvars, fvars, wvars, rvars, uvars, lvars, avars, svars, mvars, zvars>>

PairTargetFound(a) ==
  /\ components' = Dispatch(components, a, "targetFound")
  /\ PairStep(a)

PairTargetLost(a) ==
  /\ components' = Dispatch(components, a, "targetLost")
  /\ PairStep(a)

\* A-Frame calls the tick of component i; its anchor is at pose raw
PairTick(i, raw, dt) ==
  /\ components' = [components EXCEPT ![i] = tick(components[i], data, raw, dt)]
  /\ PairStep(BoundTo[i])

NextPair ==
  \/ \E a \in 1..2 : PairTargetFound(a)
  \/ \E a \in 1..2 : PairTargetLost(a)
  \/ \E i \in 1..2 : \E raw \in PairPoses, dt \in PairDeltaTimes : PairTick(i, raw, dt)

SpecPair == InitPair /\ [][NextPair]_vars

----------------------------------------------------------------------------
(* State machine of two runs of a OneEuroFilter: the same constructor      *)
(* arguments, the same time stamps, the same input on one axis             *)

InitTwin ==
  /\ \E m \in MinCutoffs, b \in Betas :
       /\ flt = NewOneEuroFilter(m, b, S)
       /\ flt2 = NewOneEuroFilter(m, b, S)
  /\ twinAxis \in 1..3
  /\ fout2 = [op |-> "none", position |-> <<0, 0, 0>>, quaternion |-> 0]
  /\ nCalls = 0
  /\ fout = [op |-> "none", position |-> <<0, 0, 0>>, quaternion |-> 0]
  /\ posBlend = <<>>
  /\ quatBlend = <<>>
  /\ alphaProbe = <<>>
  /\ PairIdle
  /\ ComponentIdle
  /\ RecorderIdle
  /\ PageIdle
  /\ LowPassIdle
  /\ AcosIdle
  /\ SeqIdle
  /\ RemoveIdle
  /\ ScriptIdle
  /\ GlobalsIdle
  /\ PanelIdle

\* filterPosition called in both runs with the same time stamp
TwinFilterPosition(p1, p2, timestamp) ==
  LET r1 == filterPosition(flt, p1, timestamp)
      r2 == filterPosition(flt2, p2, timestamp)
  IN /\ p1[twinAxis] = p2[twinAxis]
     /\ nCalls < MaxCalls
     /\ nCalls' = nCalls + 1
     /\ flt' = r1.f
     /\ flt2' = r2.f
     /\ fout' = [op |-> "filterPosition", position |-> r1.out, quaternion |-> fout.quaternion]
     /\ fout2' = [op |-> "filterPosition", position |-> r2.out, quaternion |-> fout2.quaternion]
     /\ UNCHANGED <<posBlend, quatBlend, alphaProbe, twinAxis, cvars, pvars, rvars, uvars, lvars, avars, svars, mvars, zvars>>

\* reset called in both runs
TwinReset ==
  /\ nCalls < MaxCalls
  /\ nCalls' = nCalls + 1
  /\ flt' = FilterReset(flt)
  /\ flt2' = FilterReset(flt2)
  /\ fout' = [fout EXCEPT !.op = "reset"]
  /\ fout2' = [fout2 EXCEPT !.op = "reset"]
  /\ UNCHANGED <<posBlend, quatBlend, alphaProbe, twinAxis, cvars, pvars, rvars, uvars, lvars, avars, svars, mvars, zvars>>

NextTwin ==
  \/ \E p1, p2 \in Positions : \E t \in Timestamps(flt) : TwinFilterPosition(p1, p2, t)
  \/ TwinReset

SpecTwin == InitTwin /\ [][NextTwin]_vars

----------------------------------------------------------------------------
(* State machine of the recorder: calls of its two methods and the events  *)
(* of the platform's MediaRecorder.  The overlay video can feed one        *)
(* MediaElementAudioSourceNode only, so one MediaRecorder at most is ever  *)
(* created on a page and mr describes it.                                  *)

\* sizes of the blobs handed to ondataavailable
ChunkSizes == {0, 1, 2}

\* order in which the platform runs the two 'stop' callbacks
StopOrders == {"handlerFirst", "listenerFirst"}

InitRecorder ==
  /\ RecorderIdle
  /\ PageIdle
  /\ LowPassIdle
  /\ AcosIdle
  /\ SeqIdle
  /\ RemoveIdle
  /\ ScriptIdle
  /\ GlobalsIdle
  /\ PanelIdle
  /\ PairIdle
  /\ TwinIdle
  /\ ComponentIdle
  /\ FilterIdle

RecStep ==
  /\ nRecOps < MaxRecOps
  /\ nRecOps' = nRecOps + 1
  /\ UNCHANGED <<cvars, fvars, pvars, wvars, uvars, lvars, avars, svars, mvars, zvars>>

Called(op, outcome) ==
  /\ lastCall' = [op |-> op, outcome |-> outcome, n |-> nRecOps + 1]
  /\ seenErrors' = IF outcome \in {"started", "pending"} THEN seenErrors
                   ELSE seenErrors \cup {outcome}

\* a call of startRecording, up to its return or to the getUserMedia await
StartRecording(includeMic) ==
  /\ RecStep
  /\ IF rec.isRecording
     THEN /\ rec' = startWhileRecording(rec)
          /\ Called("startRecording", "Recording already in progress")
          /\ UNCHANGED <<mr, promise, delivered, overlayConnected, recPc>>
     ELSE IF overlayConnected
     THEN /\ rec' = cleanup(setupAudioMixing(rec))
          /\ Called("startRecording", "InvalidStateError")
          /\ UNCHANGED <<mr, promise, delivered, overlayConnected, recPc>>
     ELSE IF includeMic
     THEN /\ rec' = setupAudioMixing(rec)
          /\ overlayConnected' = TRUE
          /\ recPc' = "awaitMic"
          /\ Called("startRecording", "pending")
          /\ UNCHANGED <<mr, promise, delivered>>
     ELSE LET res == startRecordingRest(setupAudioMixing(rec))
          IN /\ rec' = res.r
             /\ overlayConnected' = TRUE
             /\ mr' = IF res.ok THEN "recording" ELSE mr
             /\ delivered' = IF res.ok THEN <<>> ELSE delivered
             /\ Called("startRecording", IF res.ok THEN "started" ELSE "TypeError")
             /\ UNCHANGED <<promise, recPc>>

\* getUserMedia settled (granted or refused): the suspended startRecording goes on
ResumeStart ==
  LET res == startRecordingRest(rec)
  IN /\ recPc = "awaitMic"
     /\ RecStep
     /\ recPc' = "idle"
     /\ rec' = res.r
     /\ mr' = IF res.ok THEN "recording" ELSE mr
     /\ delivered' = IF res.ok THEN <<>> ELSE delivered
     /\ seenErrors' = IF res.ok THEN seenErrors ELSE seenErrors \cup {"TypeError"}
     /\ UNCHANGED <<promise, lastCall, overlayConnected>>

\* the MediaRecorder delivers a chunk while recording (timeslice 1000 ms)
DataAvailable(size) ==
  /\ mr = "recording"
  /\ RecStep
  /\ rec' = ondataavailable(rec, size)
  /\ delivered' = IF size > 0 THEN Append(delivered, size) ELSE delivered
  /\ UNCHANGED <<mr, promise, lastCall, seenErrors, overlayConnected, recPc>>

\* a call of stopRecording
StopRecording ==
  /\ RecStep
  /\ IF ~rec.isRecording
     THEN /\ rec' = stopWhileIdle(rec)
          /\ Called("stopRecording", "No recording in progress")
          /\ UNCHANGED <<mr, promise, delivered, overlayConnected, recPc>>
     ELSE /\ rec' = stopRecordingBegin(rec)
          /\ mr' = "stopping"
          /\ promise' = [state |-> "pending", blob |-> <<>>]
          /\ Called("stopRecording", "pending")
          /\ UNCHANGED <<delivered, overlayConnected, recPc>>

\* the task queued by mediaRecorder.stop(): the last chunk is delivered,
\* then 'stop' is dispatched to the onstop handler and the onStop listener
StopEvent(size, order) ==
  LET r1 == ondataavailable(rec, size)
      res == dispatchStop(r1, order, TRUE)
  IN /\ mr = "stopping"
     /\ RecStep
     /\ mr' = "inactive"
     /\ delivered' = IF size > 0 THEN Append(delivered, size) ELSE delivered
     /\ rec' = res.r
     /\ promise' = res.promise
     /\ UNCHANGED <<lastCall, seenErrors, overlayConnected, recPc>>

NextRecorder ==
  \/ \E includeMic \in BOOLEAN : StartRecording(includeMic)
  \/ ResumeStart
  \/ \E size \in ChunkSizes : DataAvailable(size)
  \/ StopRecording
  \/ \E size \in ChunkSizes, order \in StopOrders : StopEvent(size, order)

SpecRecorder == InitRecorder /\ [][NextRecorder]_vars

----------------------------------------------------------------------------
(* State machine of the start overlay: initUI, the DOMContentLoaded block  *)
(* of smoothing.js, clicks on Start and the marker's events                *)

InitPage ==
  /\ PageIdle
  /\ LowPassIdle
  /\ AcosIdle
  /\ SeqIdle
  /\ RemoveIdle
  /\ ScriptIdle
  /\ GlobalsIdle
  /\ PanelIdle
  /\ RecorderIdle
  /\ PairIdle
  /\ TwinIdle
  /\ ComponentIdle
  /\ FilterIdle

UIStep ==
  /\ nUIOps < MaxUIOps
  /\ nUIOps' = nUIOps + 1
  /\ UNCHANGED <<cvars, fvars, pvars, wvars, rvars, lvars, avars, svars, mvars, zvars>>

\* initUI(): the first call creates the ARUI and runs init, which replaces
\* the start overlay and disables the scene's pointer events; later calls
\* return the existing instance
InitUI ==
  /\ UIStep
  /\ IF arUI.exists
     THEN UNCHANGED <<arUI, scenePE, overlayShown, legacyAttached>>
     ELSE /\ arUI' = NewUI
          /\ overlayShown' = TRUE
          /\ scenePE' = disableScenePointerEvents(scenePE)
          /\ legacyAttached' = FALSE
  /\ UNCHANGED <<video, startPending, legacyPending, nClicks, autoBy,
                 mediaUnlocked, mindarListening, playedBy, lastMarker>>

\* the DOMContentLoaded block of smoothing.js runs after initUI: its click
\* listener is added to the start button of ARUI's overlay.  (When it runs
\* before initUI its button is removed with the old overlay by
\* createStartOverlay, and the listener can never run.)
LegacyAttach ==
  /\ arUI.exists /\ ~legacyAttached
  /\ UIStep
  /\ legacyAttached' = TRUE
  /\ UNCHANGED <<arUI, scenePE, overlayShown, video, startPending, legacyPending,
                 nClicks, autoBy, mediaUnlocked, mindarListening, playedBy,
                 lastMarker>>

\* a click on the Start button: startExperience is called and suspends in
\* unlockMedia; the listener of smoothing.js, if attached, suspends too
ClickStart ==
  /\ arUI.exists /\ overlayShown
  /\ UIStep
  /\ nClicks' = nClicks + 1
  /\ startPending' = startPending + 1
  /\ legacyPending' = IF legacyAttached THEN legacyPending + 1 ELSE legacyPending
  /\ UNCHANGED <<arUI, scenePE, overlayShown, video, legacyAttached, autoBy,
                 mediaUnlocked, mindarListening, playedBy, lastMarker>>

\* unlockMedia returned: startExperience hides the overlay, enables the
\* scene's pointer events and sets isStarted; startMindAR then adds its
\* target listeners if it finds the camera live
ResumeStartExperience(cameraLive) ==
  /\ startPending > 0
  /\ UIStep
  /\ startPending' = startPending - 1
  /\ arUI' = startExperienceFlags(arUI)
  /\ video' = "paused"
  /\ overlayShown' = FALSE
  /\ scenePE' = enableScenePointerEvents(scenePE)
  /\ autoBy' = autoBy \cup {"startExperience"}
  /\ mindarListening' = (mindarListening \/ cameraLive)
  /\ UNCHANGED <<legacyAttached, legacyPending, nClicks, mediaUnlocked, playedBy,
                 lastMarker>>

\* overlayVideo.play() settled in the listener of smoothing.js: if it was
\* fulfilled the video is paused and mediaUnlocked set; in both cases the
\* listener hides the overlay and sets the scene's pointer events to 'auto'
ResumeLegacy(played) ==
  /\ legacyPending > 0
  /\ UIStep
  /\ legacyPending' = legacyPending - 1
  /\ video' = IF played THEN "paused" ELSE video
  /\ mediaUnlocked' = (mediaUnlocked \/ played)
  /\ overlayShown' = FALSE
  /\ scenePE' = "auto"
  /\ autoBy' = autoBy \cup {"startButtonListener"}
  /\ UNCHANGED <<arUI, startPending, legacyAttached, nClicks, mindarListening,
                 playedBy, lastMarker>>

\* the marker dispatches targetFound: each listener that calls
\* overlayVideo.play() is recorded, and the platform honours or refuses play()
MarkerFound(honoured) ==
  /\ arUI.exists
  /\ UIStep
  /\ LET by == targetFoundPlays(arUI, mindarListening, mediaUnlocked)
     IN /\ playedBy' = playedBy \cup
                        {[unlocked |-> arUI.audioUnlocked \/ mediaUnlocked, by |-> by]}
        /\ video' = IF by # {} /\ honoured THEN "playing" ELSE video
  /\ lastMarker' = "targetFound"
  /\ UNCHANGED <<arUI, scenePE, overlayShown, startPending, legacyAttached,
                 legacyPending, nClicks, autoBy, mediaUnlocked, mindarListening>>

\* the marker dispatches targetLost: overlayVideo.pause()
MarkerLost ==
  /\ arUI.exists
  /\ UIStep
  /\ video' = "paused"
  /\ lastMarker' = "targetLost"
  /\ UNCHANGED <<arUI, scenePE, overlayShown, startPending, legacyAttached,
                 legacyPending, nClicks, autoBy, mediaUnlocked, mindarListening,
                 playedBy>>

NextPage ==
  \/ InitUI
  \/ LegacyAttach
  \/ ClickStart
  \/ \E cameraLive \in BOOLEAN : ResumeStartExperience(cameraLive)
  \/ \E played \in BOOLEAN : ResumeLegacy(played)
  \/ \E honoured \in BOOLEAN : MarkerFound(honoured)
  \/ MarkerLost

SpecPage == InitPage /\ [][NextPage]_vars

----------------------------------------------------------------------------
(* State machine of one LowPassFilter: filter and reset in any order *)

MaxLpCalls == 4

\* samples, cutoffs and time steps (ms) handed to filter; its callers pass
\* a positive cutoff and a positive time step
LpValues == {0 - 300, 0, 500, S}
LpCutoffs == {20, S}
LpDeltaTimes == {16, 33}

InitLowPass ==
  /\ LowPassIdle
  /\ AcosIdle
  /\ SeqIdle
  /\ RemoveIdle
  /\ ScriptIdle
  /\ GlobalsIdle
  /\ PanelIdle
  /\ PageIdle
  /\ RecorderIdle
  /\ PairIdle
  /\ TwinIdle
  /\ ComponentIdle
  /\ FilterIdle

LowPassFilterCall(value, cutoff, deltaTime) ==
  /\ nLpCalls < MaxLpCalls
  /\ nLpCalls' = nLpCalls + 1
  /\ lp' = [lp EXCEPT !.lastValue = LowPassFilter(lp.lastValue, value, cutoff, deltaTime)]
  /\ lpLast' = [op |-> "filter", first |-> lp.lastValue = Null, value |-> value,
                out |-> LowPassFilter(lp.lastValue, value, cutoff, deltaTime),
                blended |-> (lpLast.blended \/ lp.lastValue # Null),
                before |-> lpLast.out]
  /\ UNCHANGED <<cvars, fvars, pvars, wvars, rvars, uvars, avars, svars, mvars, zvars>>

LowPassResetCall ==
  /\ nLpCalls < MaxLpCalls
  /\ nLpCalls' = nLpCalls + 1
  /\ lp' = LowPassReset(lp)
  /\ lpLast' = [lpLast EXCEPT !.op = "reset", !.first = FALSE]
  /\ UNCHANGED <<cvars, fvars, pvars, wvars, rvars, uvars, avars, svars, mvars, zvars>>

NextLowPass ==
  \/ \E v \in LpValues : \E c \in LpCutoffs : \E dt \in LpDeltaTimes :
       LowPassFilterCall(v, c, dt)
  \/ LowPassResetCall

SpecLowPass == InitLowPass /\ [][NextLowPass]_vars

----------------------------------------------------------------------------
(* State machine of the angle computations: computeAngularRate of the      *)
(* filter and computeAngularSpeed of the component, past their guards      *)

\* quaternions as they come out of Matrix4.decompose and slerp: unit length
\* up to rounding, so that a dot product can leave [-1, 1] by a little
UnitQuaternions ==
  {<<0, 0, 0, S>>, <<0, 0, 0, S + 1>>, <<0, 0, 0, 0 - S>>, <<0, 0, 0, 0 - (S + 1)>>,
   <<0, 707, 0, 707>>, <<0, 708, 0, 708>>, <<S, 0, 0, 0>>, <<0, 0 - 708, 0, 0 - 708>>}

InitAcos ==
  /\ AcosIdle
  /\ SeqIdle
  /\ RemoveIdle
  /\ ScriptIdle
  /\ GlobalsIdle
  /\ PanelIdle
  /\ LowPassIdle
  /\ PageIdle
  /\ RecorderIdle
  /\ PairIdle
  /\ TwinIdle
  /\ ComponentIdle
  /\ FilterIdle

\* computeAngularRate with lastQuat set: dot = this.lastQuat.dot(quaternion)
ComputeAngularRate(lastQuat, quaternion) ==
  /\ acosCall' = [by |-> "computeAngularRate", q1 |-> lastQuat, q2 |-> quaternion,
                  dot |-> QuatDot(lastQuat, quaternion),
                  arg |-> AcosArgument(QuatDot(lastQuat, quaternion))]
  /\ UNCHANGED <<cvars, fvars, pvars, wvars, rvars, uvars, lvars, svars, mvars, zvars>>

\* computeAngularSpeed with deltaTime > 0:
\* dot = this.smoothGroup.quaternion.dot(this.targetQuaternion)
ComputeAngularSpeed(smoothed, target) ==
  /\ acosCall' = [by |-> "computeAngularSpeed", q1 |-> smoothed, q2 |-> target,
                  dot |-> QuatDot(smoothed, target),
                  arg |-> AcosArgument(QuatDot(smoothed, target))]
  /\ UNCHANGED <<cvars, fvars, pvars, wvars, rvars, uvars, lvars, svars, mvars, zvars>>

NextAcos ==
  \/ \E a, b \in UnitQuaternions : ComputeAngularRate(a, b)
  \/ \E a, b \in UnitQuaternions : ComputeAngularSpeed(a, b)

SpecAcos == InitAcos /\ [][NextAcos]_vars

----------------------------------------------------------------------------
(* State machine of one OneEuroFilter whose calls are recorded: for each   *)
(* call its timestamp, the branch it took and what it returned             *)

MaxSeq == 5

SeqMinCutoffs == {20, S}
SeqPositions == {<<0, 0, 0>>, <<S, 500, -300>>}
SeqQuaternions == {0, 400}
SeqIncrements == {0 - 16, 0, 16}

\* timestamps handed to a call: around the latest one handed to any call
SeqTimestamps == {(IF seqCall.last.op = "none" THEN 100 ELSE seqCall.last.t) + i :
                    i \in SeqIncrements}

InitSeq ==
  /\ seqFlt \in {NewOneEuroFilter(m, 0, S) : m \in SeqMinCutoffs}
  /\ seqCall = [last |-> NoCall, before |-> NoCall,
                rawP |-> <<0, 0, 0>>, outP |-> <<0, 0, 0>>,
                rawQ |-> 0, outQ |-> 0, runQ |-> Null]
  /\ seqHist = [hasP |-> FALSE, outP |-> <<0, 0, 0>>, hasQ |-> FALSE, outQ |-> 0,
                nQ |-> 0, qTime |-> Null, qIncreasing |-> TRUE]
  /\ nSeq = 0
  /\ RemoveIdle
  /\ ScriptIdle
  /\ GlobalsIdle
  /\ PanelIdle
  /\ AcosIdle
  /\ LowPassIdle
  /\ PageIdle
  /\ RecorderIdle
  /\ PairIdle
  /\ TwinIdle
  /\ ComponentIdle
  /\ FilterIdle

SeqStep ==
  /\ nSeq < MaxSeq
  /\ nSeq' = nSeq + 1
  /\ UNCHANGED <<cvars, fvars, pvars, wvars, rvars, uvars, lvars, avars, mvars, zvars>>

\* filterPosition(position, timestamp) on seqFlt
SeqFilterPosition(position, timestamp) ==
  LET r == filterPosition(seqFlt, position, timestamp)
      deltaTime == IF seqFlt.lastTime = Null THEN Null ELSE timestamp - seqFlt.lastTime
      branch == IF seqFlt.lastTime = Null THEN "first"
                ELSE IF deltaTime <= 0 THEN "nonpositive"
                ELSE IF seqFlt.x = Null THEN "store"
                ELSE "blend"
  IN /\ SeqStep
     /\ seqFlt' = r.f
     /\ seqCall' = [seqCall EXCEPT
                      !.last = [op |-> "filterPosition", t |-> timestamp, dt |-> deltaTime,
                                branch |-> branch, history |-> (seqFlt.x # Null),
                                unchanged |-> (r.f = seqFlt)],
                      !.before = seqCall.last,
                      !.rawP = position, !.outP = r.out]
     /\ seqHist' = [seqHist EXCEPT !.hasP = TRUE, !.outP = r.out]

\* filterQuaternion(quaternion, timestamp) on seqFlt
SeqFilterQuaternion(quaternion, timestamp) ==
  LET r == filterQuaternion(seqFlt, quaternion, timestamp)
      deltaTime == IF seqFlt.lastTime = Null THEN Null ELSE timestamp - seqFlt.lastTime
      branch == IF seqFlt.lastTime = Null \/ seqFlt.lastQuat = Null THEN "first"
                ELSE IF deltaTime <= 0 THEN "nonpositive"
                ELSE "slerp"
  IN /\ SeqStep
     /\ seqFlt' = r.f
     /\ seqCall' = [seqCall EXCEPT
                      !.last = [op |-> "filterQuaternion", t |-> timestamp, dt |-> deltaTime,
                                branch |-> branch, history |-> (seqFlt.lastQuat # Null),
                                unchanged |-> (r.f = seqFlt)],
                      !.before = seqCall.last,
                      !.rawQ = quaternion, !.outQ = r.out, !.runQ = seqFlt.lastQuat]
     /\ seqHist' = [seqHist EXCEPT
                      !.hasQ = TRUE, !.outQ = r.out,
                      !.nQ = IF seqHist.nQ < 2 THEN seqHist.nQ + 1 ELSE 2,
                      !.qTime = timestamp,
                      !.qIncreasing = /\ seqHist.qIncreasing
                                      /\ (seqHist.qTime # Null => seqHist.qTime < timestamp)]

\* reset() on seqFlt
SeqReset ==
  /\ SeqStep
  /\ seqFlt' = FilterReset(seqFlt)
  /\ seqCall' = [seqCall EXCEPT
                   !.last = [op |-> "reset", t |-> seqCall.last.t, dt |-> Null,
                             branch |-> "none", history |-> FALSE,
                             unchanged |-> (FilterReset(seqFlt) = seqFlt)],
                   !.before = seqCall.last]
  /\ seqHist' = [seqHist EXCEPT !.hasP = FALSE, !.hasQ = FALSE, !.nQ = 0,
                                !.qTime = Null, !.qIncreasing = TRUE]

NextSeq ==
  \/ \E p \in SeqPositions : \E t \in SeqTimestamps : SeqFilterPosition(p, t)
  \/ \E q \in SeqQuaternions : \E t \in SeqTimestamps : SeqFilterQuaternion(q, t)
  \/ SeqReset

SpecSeq == InitSeq /\ [][NextSeq]_vars

----------------------------------------------------------------------------
(* State machine of a component that is removed: init, the anchor's        *)
(* events, ticks while attached, remove                                    *)

MaxRmOps == 5

InitRemove ==
  /\ RemoveIdle
  /\ ScriptIdle
  /\ GlobalsIdle
  /\ PanelIdle
  /\ SeqIdle
  /\ AcosIdle
  /\ LowPassIdle
  /\ PageIdle
  /\ RecorderIdle
  /\ PairIdle
  /\ TwinIdle
  /\ ComponentIdle
  /\ FilterIdle

RmStep(op) ==
  /\ nRmOps < MaxRmOps
  /\ nRmOps' = nRmOps + 1
  /\ rmLast' = op
  /\ UNCHANGED <<cvars, fvars, pvars, wvars, rvars, uvars, lvars, avars, svars, zvars>>

\* the anchor dispatches an event: every listener registered for it runs
RmDispatch(event) ==
  /\ RmStep(event)
  /\ rmc' = IF \E l \in rmListeners : l[1] = event THEN Listener(rmc, event) ELSE rmc
  /\ UNCHANGED <<rmListeners, rmNextFn, rmRemoved>>

\* A-Frame calls tick while the component is attached
RmTick(raw, dt) ==
  /\ ~rmRemoved
  /\ RmStep("tick")
  /\ rmc' = tick(rmc, data, raw, dt)
  /\ UNCHANGED <<rmListeners, rmNextFn, rmRemoved>>

\* A-Frame calls remove when the component is detached
RmRemove ==
  /\ ~rmRemoved
  /\ RmStep("remove")
  /\ rmListeners' = RemoveListeners(rmListeners, rmNextFn)
  /\ rmNextFn' = rmNextFn + 2
  /\ rmRemoved' = TRUE
  /\ UNCHANGED rmc

NextRemove ==
  \/ \E event \in {"targetFound", "targetLost"} : RmDispatch(event)
  \/ \E raw \in PairPoses, dt \in PairDeltaTimes : RmTick(raw, dt)
  \/ RmRemove

SpecRemove == InitRemove /\ [][NextRemove]_vars

----------------------------------------------------------------------------
(* The standalone recorder script.  Its closure variables are the fields   *)
(* of one record: recorders lists every MediaRecorder the script has       *)
(* created, with its state and whether its 'stop' event is still queued;   *)
(* mediaRecorder and mixedStream are indices into that list, 0 when        *)
(* undefined or null; pending counts the setupAudio calls suspended at     *)
(* getUserMedia; scheduled counts the draw callbacks handed to             *)
(* requestAnimationFrame; painted counts the frames draw has composited    *)
(* and frames the animation frames that went by during a recording.        *)

MaxScriptOps == 6

\* mediaRecorder && mediaRecorder.state === 'recording'
ScriptRecording(s) ==
  s.mediaRecorder # 0 /\ s.recorders[s.mediaRecorder].state = "recording"

\* some MediaRecorder the script created is recording
AnyRecording(s) == \E i \in DOMAIN s.recorders : s.recorders[i].state = "recording"

\* draw: paints the camera frame and the AR canvas and reschedules itself,
\* while the recorder is recording
draw(s) ==
  IF ScriptRecording(s)
  THEN [s EXCEPT !.painted = @ + 1, !.scheduled = @ + 1]
  ELSE s

\* setupAudio with the microphone box unchecked: it runs to its end without
\* suspending; createMediaElementSource throws when the overlay video has
\* been connected before, and the promise is then rejected
setupAudioNoMic(s) ==
  IF ~s.muted
  THEN IF s.connected
       THEN [s |-> [s EXCEPT !.audioContext = TRUE], ok |-> FALSE]
       ELSE [s |-> [s EXCEPT !.audioContext = TRUE, !.connected = TRUE,
                             !.audioStream = TRUE],
             ok |-> TRUE]
  ELSE [s |-> [s EXCEPT !.audioStream = FALSE], ok |-> TRUE]

\* setupAudio with the box checked, from the point where getUserMedia has
\* settled; every error is caught and leaves audioStream null
setupAudioMic(s, granted) ==
  IF ~granted THEN [s EXCEPT !.audioStream = FALSE]
  ELSE IF ~s.muted /\ s.connected
       THEN [s EXCEPT !.audioContext = TRUE, !.audioStream = FALSE]
       ELSE [s EXCEPT !.audioContext = TRUE, !.connected = @ \/ ~s.muted,
                      !.audioStream = TRUE]

\* the callback of setupAudio().then: a MediaRecorder is created and started
onAudioReady(s) ==
  [s EXCEPT !.recorders = Append(@, [state |-> "recording", stopPending |-> FALSE]),
            !.mediaRecorder = Len(s.recorders) + 1,
            !.mixedStream = Len(s.recorders) + 1,
            !.buttonText = "Stop"]

\* startRecording of the script, up to its return or to the getUserMedia await
scriptStartRecording(s, mic, camera) ==
  IF ~camera THEN s
  ELSE LET d == draw(s)
       IN IF mic THEN [d EXCEPT !.pending = @ + 1]
          ELSE LET a == setupAudioNoMic(d)
               IN IF a.ok THEN onAudioReady(a.s) ELSE a.s

\* stopRecording of the script: stop() makes the recorder inactive at once
\* and queues its 'stop' event
scriptStopRecording(s) ==
  [s EXCEPT !.recorders[s.mediaRecorder] = [state |-> "inactive", stopPending |-> TRUE],
            !.buttonText = "Record"]

\* the click listener of the record button
recordButtonClick(s, mic, camera) ==
  IF s.mediaRecorder = 0 \/ s.recorders[s.mediaRecorder].state = "inactive"
  THEN scriptStartRecording(s, mic, camera)
  ELSE scriptStopRecording(s)

\* stopAllTracks: the tracks of the current mixedStream are stopped, which
\* ends the recorder that records them, if it is still recording
stopAllTracks(s) ==
  LET j == s.mixedStream
      ended == IF j # 0 /\ s.recorders[j].state = "recording"
               THEN [s.recorders EXCEPT ![j] = [state |-> "inactive", stopPending |-> TRUE]]
               ELSE s.recorders
  IN [s EXCEPT !.recorders = ended, !.audioContext = FALSE, !.mixedStream = 0,
               !.audioStream = FALSE]

\* the 'stop' event of recorder i: its last chunk goes to ondataavailable,
\* then onstop builds the download and clears the chunks
scriptOnStop(s, i, size) ==
  LET chunks == IF size > 0 THEN Append(s.recordedChunks, size) ELSE s.recordedChunks
  IN stopAllTracks([s EXCEPT !.recorders[i].stopPending = FALSE,
                             !.download = chunks, !.downloadShown = TRUE,
                             !.recordedChunks = <<>>])

\* one animation frame: every scheduled draw callback runs once
animationFrame(s) ==
  LET k == s.scheduled
      counted == [s EXCEPT !.frames = IF AnyRecording(s) THEN @ + 1 ELSE @,
                           !.scheduled = 0]
  IN IF k > 0 /\ ScriptRecording(s)
     THEN [counted EXCEPT !.painted = @ + k, !.scheduled = k]
     ELSE counted

----------------------------------------------------------------------------
(* State machine of the standalone recorder script: clicks on the record   *)
(* button, getUserMedia settling, 'stop' events and animation frames       *)

\* one more event of the page handled
Counted(s) == [s EXCEPT !.nOps = @ + 1]

InitScript ==
  /\ \E muted \in BOOLEAN : script = NewScript(muted)
  /\ GlobalsIdle
  /\ PanelIdle
  /\ RemoveIdle
  /\ SeqIdle
  /\ AcosIdle
  /\ LowPassIdle
  /\ PageIdle
  /\ RecorderIdle
  /\ PairIdle
  /\ TwinIdle
  /\ ComponentIdle
  /\ FilterIdle

ScriptStep ==
  /\ script.nOps < MaxScriptOps
  /\ UNCHANGED <<cvars, fvars, pvars, wvars, rvars, uvars, lvars, avars, svars, mvars,
                 globals, panel>>

\* a click on the record button; the microphone box and the camera video
\* are as the page has them at that moment
ScriptClick(mic, camera) ==
  /\ ScriptStep
  /\ script' = Counted(recordButtonClick(script, mic, camera))

\* getUserMedia settles for one suspended setupAudio, whose then-callback runs
MicSettled(granted) ==
  /\ script.pending > 0
  /\ ScriptStep
  /\ script' = Counted(onAudioReady(setupAudioMic([script EXCEPT !.pending = @ - 1],
                                                   granted)))

\* the queued 'stop' event of one recorder is dispatched
ScriptStopEvent(i, size) ==
  /\ i \in DOMAIN script.recorders
  /\ script.recorders[i].stopPending
  /\ ScriptStep
  /\ script' = Counted(scriptOnStop(script, i, size))

\* the browser runs an animation frame
AnimationFrame ==
  /\ ScriptStep
  /\ script' = Counted(animationFrame(script))

NextScript ==
  \/ \E mic, camera \in BOOLEAN : ScriptClick(mic, camera)
  \/ \E granted \in BOOLEAN : MicSettled(granted)
  \/ \E i \in 1..MaxScriptOps, size \in ChunkSizes : ScriptStopEvent(i, size)
  \/ AnimationFrame

SpecScript == InitScript /\ [][NextScript]_vars

----------------------------------------------------------------------------
(* State machine of the two singletons: calls of initRecorder, initUI,     *)
(* getRecorder and getUI on a page whose elements may be missing           *)

MaxGlobalOps == 5

InitGlobals ==
  /\ GlobalsIdle
  /\ PanelIdle
  /\ ScriptIdle
  /\ RemoveIdle
  /\ SeqIdle
  /\ AcosIdle
  /\ LowPassIdle
  /\ PageIdle
  /\ RecorderIdle
  /\ PairIdle
  /\ TwinIdle
  /\ ComponentIdle
  /\ FilterIdle

GlobalStep ==
  /\ globals.nOps < MaxGlobalOps
  /\ UNCHANGED <<cvars, fvars, pvars, wvars, rvars, uvars, lvars, avars, svars, mvars,
                 script, panel>>

\* a call of initRecorder; the page has the WebGL canvas and the camera
\* video or it has not
InitRecorderCall(webgl, camera) ==
  /\ GlobalStep
  /\ globals' = Counted(initRecorder(globals, webgl, camera))

\* a call of initUI; failAt is the setup step in which the DOM throws, if any
InitUICall(failAt) ==
  /\ GlobalStep
  /\ globals' = Counted(initUI(globals, failAt))

\* a call of getRecorder
GetRecorderCall ==
  /\ GlobalStep
  /\ globals' = Counted([globals EXCEPT !.last = [op |-> "getRecorder", threw |-> FALSE,
                                                   returned |-> getRecorder(globals)]])

\* a call of getUI
GetUICall ==
  /\ GlobalStep
  /\ globals' = Counted([globals EXCEPT !.last = [op |-> "getUI", threw |-> FALSE,
                                                   returned |-> getUI(globals)]])

NextGlobals ==
  \/ \E webgl, camera \in BOOLEAN : InitRecorderCall(webgl, camera)
  \/ \E failAt \in 0..UISetupSteps : InitUICall(failAt)
  \/ GetRecorderCall
  \/ GetUICall

SpecGlobals == InitGlobals /\ [][NextGlobals]_vars

----------------------------------------------------------------------------
(* State machine of the tuning panel on its own: clicks on its two buttons *)
(* and 'input' events, from a page loaded with smoothing saved on or off   *)

MaxPanelOps == 5

InitPanel ==
  /\ \E enabled \in BOOLEAN :
       panel = NewPanel([DefaultTuning EXCEPT !.smoothingEnabled = enabled])
  /\ GlobalsIdle
  /\ ScriptIdle
  /\ RemoveIdle
  /\ SeqIdle
  /\ AcosIdle
  /\ LowPassIdle
  /\ PageIdle
  /\ RecorderIdle
  /\ PairIdle
  /\ TwinIdle
  /\ ComponentIdle
  /\ FilterIdle

PanelStep ==
  /\ panel.nOps < MaxPanelOps
  /\ UNCHANGED <<cvars, fvars, pvars, wvars, rvars, uvars, lvars, avars, svars, mvars,
                 script, globals>>

PanelToggle ==
  /\ PanelStep
  /\ panel' = Counted(toggleClick(panel))

PanelReset ==
  /\ PanelStep
  /\ panel' = Counted(resetClick(panel))

PanelInput(param, value) ==
  /\ PanelStep
  /\ panel' = Counted(inputEvent(panel, param, value))

NextPanel ==
  \/ PanelToggle
  \/ PanelReset
  \/ \E p \in Params : \E v \in TypedValues(p) : PanelInput(p, v)

SpecPanel == InitPanel /\ [][NextPanel]_vars

----------------------------------------------------------------------------
(* Properties of the component *)

Pose(c) == <<c.position, c.quaternion, c.scale>>

\* this step is a call of tick
IsTick == nTicks' = nTicks + 1

\* the pose of c is the raw pose, with the overscan k applied to the scale
AtRaw(c, raw, k) ==
  /\ c.position = raw.position
  /\ c.quaternion = raw.quaternion
  /\ \A i \in 1..3 : c.scale[i] = Mul(raw.scale[i], k)

\* C1: the first tick after a targetFound event sets the smoothed position
\* and orientation to the raw ones, the scale to raw scale x overscan, and
\* clears snapNextFrame, whatever the component held before.
C1_SnapOnAcquire ==
  [][(phase = "acquired" /\ IsTick)
       => (AtRaw(sf', lastTick'.raw, data.overscan) /\ ~sf'.snapNextFrame)]_vars

\* a re-acquisition: the second tick of the page snapped to PoseC
C1_Witness ==
  /\ phase = "tracking" /\ sinceSnap = 1 /\ nTicks = 2
  /\ lastTick.raw = PoseC /\ sf.quaternion = 400 /\ ~sf.snapNextFrame

\* C2: from a targetLost event until the next targetFound no step changes
\* the smoothed pose, and the output is marked not visible all that time.
C2_FreezeOnLoss ==
  [][phase' = "lost"
       => (Pose(sf') = Pose(sf) /\ ~sf'.isVisible /\ ~sf'.planeVisible)]_vars

\* a tick with raw pose PoseC arrived after the loss and the pose is still
\* the one snapped from PoseA
C2_Witness ==
  /\ phase = "lost" /\ nTicks >= 2 /\ lastTick.raw = PoseC
  /\ sf.position = PoseA.position /\ sf.quaternion = 0 /\ ~sf.snapNextFrame

\* C3 (as claimed): while tracking with no snap pending, a tick with
\* deltaTime <= 0 leaves the smoothed pose as it was.
C3_NonPositiveDtNoOp ==
  [][(phase = "tracking" /\ IsTick /\ lastTick'.dt <= 0) => Pose(sf') = Pose(sf)]_vars

\* C4 (as claimed): with smoothingEnabled = false every tracking tick after
\* the snap copies the raw pose to the output, scale times overscan.
C4_DisabledCopiesRaw ==
  [][(phase = "tracking" /\ IsTick /\ ~tuningParams.smoothingEnabled)
       => AtRaw(sf', lastTick'.raw, data.overscan)]_vars

\* C5 (as claimed): a raw pose held constant since the snap, with a fixed
\* dt > 0, is reproduced exactly by every tick, scale times overscan.
C5_ConstantFixedPoint ==
  constRun => AtRaw(sf, lastTick.raw, data.overscan)

\* C6 (as claimed): the configuration a tick consumes is inside its domain:
\* 0 < alphaMin <= alphaMax <= 1 and overscan >= 1.
C6_ConfigInDomain ==
  (phase = "tracking") => cfgOK

\* C10: with the configuration inside its domain, a step of the raw x from
\* 0 to 1 (other axes constant, fixed dt > 0) makes the smoothed x
\* non-decreasing and never above 1; the other axes stay at their raw values.
C10_StepNoOvershoot ==
  [][(IsTick /\ stepRun' \in {"low", "high"} /\ cfgOK')
       => /\ sf'.position[1] >= sf.position[1] \/ phase = "acquired"
          /\ sf'.position[1] <= S
          /\ sf'.position[1] >= 0
          /\ sf'.position[2] = lastTick'.raw.position[2]
          /\ sf'.position[3] = lastTick'.raw.position[3]]_vars

\* two smoothing ticks after the step: x is strictly between 0 and 1
C10_Witness ==
  /\ stepRun = "high" /\ cfgOK /\ sinceSnap >= 3
  /\ sf.position[1] > 0 /\ sf.position[1] < S

\* a step made by targetFound: the only step that leaves the component
\* acquired without being a tuning operation
IsFound == phase' = "acquired" /\ nEdits' = nEdits

\* a step made by a tuning-panel operation
IsTuning == nEdits' = nEdits + 1

\* every channel of a OneEuroFilter is in its reset state
FilterCleared(f) ==
  /\ f.lastTime = Null /\ f.lastQuat = Null
  /\ f.x = Null /\ f.y = Null /\ f.z = Null /\ f.angularVel = Null

C12_FoundResets ==
  [][IsFound => /\ FilterCleared(sf'.filter)
                /\ sf'.snapNextFrame
                /\ sf'.isVisible
                /\ sf'.planeVisible]_vars

\* targetFound after a loss: the pose snapped from PoseA survived a tick with
\* PoseC (so the component was lost), and a snap is pending again
C12_Witness ==
  /\ phase = "acquired" /\ nTicks = 2 /\ lastTick.raw = PoseC
  /\ sf.position = PoseA.position /\ sf.quaternion = 0
  /\ sf.snapNextFrame /\ sf.isVisible

\* C13: before the first targetFound event, and for a component without an
\* anchor, a tick changes nothing of the component: pose, visibility flag and
\* snapNextFrame stay as they were, for any raw pose and any deltaTime.
C13_UninitTicksNoOp ==
  [][(IsTick /\ (phase = "uninit" \/ ~sf.anchor))
       => /\ Pose(sf') = Pose(sf)
          /\ sf'.isVisible = sf.isVisible
          /\ sf'.planeVisible = sf.planeVisible
          /\ sf'.snapNextFrame = sf.snapNextFrame]_vars

\* two ticks, the latest with PoseC and deltaTime 16, on a component with an
\* anchor that was never found: it is still as init left it
C13_Witness ==
  /\ phase = "uninit" /\ sf.anchor /\ nTicks >= 2
  /\ lastTick = [raw |-> PoseC, dt |-> 16]
  /\ sf = InitComponent(TRUE)

\* the three fields of a configuration d all come from the tuning parameters
\* tp (a null read back from storage stands for the schema default)
WholeSnapshot(d, tp) ==
  /\ d.overscan = SchemaNumber(tp.overscan, DefaultOverscan)
  /\ d.alphaMin = SchemaNumber(tp.alphaMin, DefaultAlphaMin)
  /\ d.alphaMax = SchemaNumber(tp.alphaMax, DefaultAlphaMax)

\* C16: the configuration is observed atomically: every tuning operation
\* leaves this.data equal to one whole snapshot of tuningParams (alphaMin,
\* alphaMax and overscan together), and a tick, which reads this.data, runs
\* to completion without the configuration changing under it.
C16_ConfigAtomic ==
  [][/\ IsTuning => WholeSnapshot(data', tuningParams')
     /\ IsTick => data' = data]_vars

\* a tracking tick that blended with a configuration applied from the panel
C16_Witness ==
  /\ phase = "tracking" /\ sinceSnap >= 2 /\ nEdits >= 1
  /\ data # SchemaDefaults /\ WholeSnapshot(data, tuningParams)
  /\ lastTick.dt > 0 /\ sf.position[1] > 0 /\ sf.position[1] < S

\* C20 (as claimed): after every tuning-panel operation the object stored in
\* localStorage is the current tuningParams: a new ARUI would load the same.
C20_TuningPersisted ==
  [][IsTuning => loadTuningParams(storage') = tuningParams']_vars

\* what the code keeps: the number inputs, the sliders and Reset store the
\* JSON form of tuningParams; Toggle Smoothing stores nothing
C20_SavedExceptToggle ==
  [][(IsTuning /\ tuningParams'.smoothingEnabled = tuningParams.smoothingEnabled)
       => storage' = <<JSONRoundTrip(tuningParams')>>]_vars

\* C26 (as claimed): when filterPosition and filterQuaternion are called one
\* after the other with the same timestamp, and the first of the two blended
\* with its history over the time elapsed since the previous tick, then the
\* second uses the same elapsed time and blends with its history too, in
\* either order.
C26_BothFilteredInTick ==
  (/\ seqCall.last.op \in {"filterPosition", "filterQuaternion"}
   /\ seqCall.before.op \in {"filterPosition", "filterQuaternion"}
   /\ seqCall.last.op # seqCall.before.op
   /\ seqCall.last.t = seqCall.before.t
   /\ seqCall.before.branch \in {"blend", "slerp"}
   /\ seqCall.last.history)
    => /\ seqCall.last.dt = seqCall.before.dt
       /\ seqCall.last.branch \in {"blend", "slerp"}

\* what the code does instead: the second call of such a pair finds a time
\* step of 0 and returns its raw input
C26_SecondOfPairReturnsRaw ==
  (/\ seqCall.last.op \in {"filterPosition", "filterQuaternion"}
   /\ seqCall.before.op \in {"filterPosition", "filterQuaternion"}
   /\ seqCall.last.op # seqCall.before.op
   /\ seqCall.last.t = seqCall.before.t
   /\ seqCall.before.branch \in {"blend", "slerp"}
   /\ seqCall.last.history)
    => /\ seqCall.last.dt = 0
       /\ seqCall.last.branch = "nonpositive"
       /\ seqCall.last.op = "filterPosition" => seqCall.outP = seqCall.rawP
       /\ seqCall.last.op = "filterQuaternion" => seqCall.outQ = seqCall.rawQ

\* C27 (as claimed): in a run of filterQuaternion calls with strictly
\* increasing timestamps since construction or reset, with or without
\* filterPosition calls in between, the first call returns and stores the raw
\* quaternion; every later call is not handled as a first invocation: it
\* returns the running quaternion slerped toward raw by a factor in [0, 1]
\* and stores what it returned.
C27_OnlyFirstIsFirst ==
  (seqCall.last.op = "filterQuaternion" /\ seqHist.qIncreasing)
    => IF seqHist.nQ = 1
       THEN seqCall.outQ = seqCall.rawQ /\ seqFlt.lastQuat = seqCall.rawQ
       ELSE /\ seqCall.last.branch # "first"
            /\ Lo(seqCall.runQ, seqCall.rawQ) <= seqCall.outQ
            /\ seqCall.outQ <= Hi(seqCall.runQ, seqCall.rawQ)
            /\ seqFlt.lastQuat = seqCall.outQ

\* what holds: the first call returns and stores raw, and a later call that
\* finds lastTime set and earlier than its timestamp slerps and stores the result
C27_SlerpsWhenClockSet ==
  (seqCall.last.op = "filterQuaternion" /\ seqHist.qIncreasing)
    => IF seqHist.nQ = 1
       THEN seqCall.outQ = seqCall.rawQ /\ seqFlt.lastQuat = seqCall.rawQ
       ELSE (seqCall.last.dt # Null /\ seqCall.last.dt > 0)
              => /\ seqCall.last.branch = "slerp"
                 /\ Lo(seqCall.runQ, seqCall.rawQ) <= seqCall.outQ
                 /\ seqCall.outQ <= Hi(seqCall.runQ, seqCall.rawQ)
                 /\ seqFlt.lastQuat = seqCall.outQ

\* a call on seqFlt whose timestamp is not later than the filter's lastTime
IsNonPositiveCall(op) ==
  /\ nSeq' = nSeq + 1
  /\ seqCall'.last.op = op
  /\ seqFlt.lastTime # Null
  /\ seqCall'.last.t <= seqFlt.lastTime

\* C28 (as claimed): a filterPosition or filterQuaternion call whose
\* timestamp is not later than the last recorded timestamp returns the output
\* of the previous call of its kind and leaves the whole filter state
\* (lastTime, the three channel values, lastQuat) unchanged.
C28_NonPositiveDtRetains ==
  [][/\ IsNonPositiveCall("filterPosition")
        => /\ seqFlt' = seqFlt
           /\ seqHist.hasP => seqCall'.outP = seqHist.outP
     /\ IsNonPositiveCall("filterQuaternion")
        => /\ seqFlt' = seqFlt
           /\ seqHist.hasQ => seqCall'.outQ = seqHist.outQ]_vars

\* what the code does instead: such a call returns its raw input and moves
\* lastTime to its timestamp; the channel values and lastQuat stay (a
\* filterQuaternion call that finds lastQuat empty stores raw)
C28_NonPositiveDtReturnsRaw ==
  [][/\ IsNonPositiveCall("filterPosition")
        => /\ seqCall'.outP = seqCall'.rawP
           /\ seqFlt' = [seqFlt EXCEPT !.lastTime = seqCall'.last.t]
     /\ IsNonPositiveCall("filterQuaternion")
        => /\ seqCall'.outQ = seqCall'.rawQ
           /\ seqFlt' = IF seqFlt.lastQuat = Null
                         THEN [seqFlt EXCEPT !.lastQuat = seqCall'.rawQ]
                         ELSE [seqFlt EXCEPT !.lastTime = seqCall'.last.t]]_vars

\* C25: the value handed to Math.acos by computeAngularRate and by
\* computeAngularSpeed lies in [-1, 1] for every pair of quaternions, also
\* when their dot product is outside that range; inside it the dot product
\* is handed on as it is.
C25_AcosArgumentClamped ==
  /\ 0 - S <= acosCall.arg /\ acosCall.arg <= S
  /\ (0 - S <= acosCall.dot /\ acosCall.dot <= S) => acosCall.arg = acosCall.dot

\* computeAngularSpeed met a dot product above 1 and handed 1 to Math.acos
C25_Witness ==
  /\ acosCall.by = "computeAngularSpeed"
  /\ acosCall.dot > S /\ acosCall.arg = S

\* computeAngularRate met a dot product below -1 and handed -1 to Math.acos
C25_WitnessRate ==
  /\ acosCall.by = "computeAngularRate"
  /\ acosCall.dot < 0 - S /\ acosCall.arg = 0 - S

\* C29 (as claimed): after every tracking tick with deltaTime > 0 and the
\* configuration inside its domain, snap or not, the smoothed scale is the
\* anchor's raw scale times overscan, whatever the smoothed scale was before.
C29_ScaleIsRawTimesOverscan ==
  [][(phase \in {"acquired", "tracking"} /\ IsTick /\ lastTick'.dt > 0 /\ InDomain(data))
       => \A i \in 1..3 : sf'.scale[i] = Mul(lastTick'.raw.scale[i], data.overscan)]_vars

\* what holds: the snap tick sets the scale to raw scale times overscan, and
\* a later tick leaves it between its old value and raw scale times overscan
C29_ScaleMovesTowardTarget ==
  [][(phase \in {"acquired", "tracking"} /\ IsTick /\ lastTick'.dt > 0 /\ InDomain(data))
       => \A i \in 1..3 :
            LET target == Mul(lastTick'.raw.scale[i], data.overscan)
            IN IF phase = "acquired" THEN sf'.scale[i] = target
               ELSE /\ Lo(sf.scale[i], target) <= sf'.scale[i]
                    /\ sf'.scale[i] <= Hi(sf.scale[i], target)]_vars

\* C30 (as claimed): after remove() has run, a targetFound or targetLost
\* event on the anchor does not run the component's handlers: isVisible,
\* snapNextFrame, the filter state and the video plane's visibility stay.
C30_RemoveDetachesListeners ==
  [][(rmRemoved /\ rmLast' \in {"targetFound", "targetLost"}) => rmc' = rmc]_vars

\* what the code does instead: remove() leaves both listeners of init on
\* the anchor
C30_ListenersStay ==
  rmListeners = InitListeners

\* C24 (as claimed): for the configuration the tuning panel or the persisted
\* settings delivered to the component, and all non-negative linear and
\* angular speeds, computeAdaptiveAlpha returns r with alphaMin <= r <= alphaMax.
C24_AlphaWithinRange ==
  \A lin, ang \in Speeds :
    LET r == computeAdaptiveAlpha(lin, ang, data.alphaMin, data.alphaMax)
    IN IsNum(r) /\ data.alphaMin <= r /\ r <= data.alphaMax

\* what holds: the result is inside the range whenever the delivered pair is
\* two numbers with alphaMin <= alphaMax
C24_WithinRangeWhenOrdered ==
  (IsNum(data.alphaMin) /\ IsNum(data.alphaMax) /\ data.alphaMin <= data.alphaMax)
    => C24_AlphaWithinRange

----------------------------------------------------------------------------
(* Properties of the filter core *)

\* C7: monotone responsiveness. For one filter (fixed mincutoff and beta)
\* and equal time steps, a blend made at a higher motion rate has an adaptive
\* cutoff at least as large, and gives the new sample at least as much weight:
\* the low-pass weight in filterPosition, the slerp alpha in filterQuaternion
\* and the alpha returned by computeAdaptiveAlpha.
C7_MonotoneResponsiveness ==
  /\ \A i, j \in DOMAIN posBlend :
       (posBlend[i].dt = posBlend[j].dt /\ posBlend[i].rate < posBlend[j].rate)
         => /\ posBlend[i].cutoff <= posBlend[j].cutoff
            /\ RatLeq(posBlend[i].weight, posBlend[j].weight)
  /\ \A i, j \in DOMAIN quatBlend :
       (quatBlend[i].dt = quatBlend[j].dt /\ quatBlend[i].rate < quatBlend[j].rate)
         => /\ quatBlend[i].cutoff <= quatBlend[j].cutoff
            /\ quatBlend[i].alpha <= quatBlend[j].alpha
  /\ \A i \in DOMAIN alphaProbe :
       alphaProbe[i].lin1 < alphaProbe[i].lin2 => alphaProbe[i].a1 <= alphaProbe[i].a2

\* the parts of C7 that do not involve the low-pass weight
C7_CutoffSlerpAdaptiveMonotone ==
  /\ \A i, j \in DOMAIN posBlend :
       (posBlend[i].dt = posBlend[j].dt /\ posBlend[i].rate < posBlend[j].rate)
         => posBlend[i].cutoff <= posBlend[j].cutoff
  /\ \A i, j \in DOMAIN quatBlend :
       (quatBlend[i].dt = quatBlend[j].dt /\ quatBlend[i].rate < quatBlend[j].rate)
         => /\ quatBlend[i].cutoff <= quatBlend[j].cutoff
            /\ quatBlend[i].alpha <= quatBlend[j].alpha
  /\ \A i \in DOMAIN alphaProbe :
       alphaProbe[i].lin1 < alphaProbe[i].lin2 => alphaProbe[i].a1 <= alphaProbe[i].a2

\* C8: the weight LowPassFilter.filter applies to the new sample is
\* non-decreasing in the time step for a fixed cutoff, and non-decreasing in
\* the cutoff for a fixed time step.
C8_WeightMonotone ==
  \A i, j \in DOMAIN posBlend :
    /\ (posBlend[i].cutoff = posBlend[j].cutoff /\ posBlend[i].dt <= posBlend[j].dt)
         => RatLeq(posBlend[i].weight, posBlend[j].weight)
    /\ (posBlend[i].dt = posBlend[j].dt /\ posBlend[i].cutoff <= posBlend[j].cutoff)
         => RatLeq(posBlend[i].weight, posBlend[j].weight)

\* what the code does instead: the weight never increases with the time
\* step or with the cutoff
C8_WeightAntitone ==
  \A i, j \in DOMAIN posBlend :
    /\ (posBlend[i].cutoff = posBlend[j].cutoff /\ posBlend[i].dt <= posBlend[j].dt)
         => RatLeq(posBlend[j].weight, posBlend[i].weight)
    /\ (posBlend[i].dt = posBlend[j].dt /\ posBlend[i].cutoff <= posBlend[j].cutoff)
         => RatLeq(posBlend[j].weight, posBlend[i].weight)

\* C9: in every blend with history (time step > 0, cutoff > 0) the weight of
\* the new sample lies strictly between 0 and 1, and on each axis the output
\* lies between the previously stored value and the new sample.
C9_WeightInUnitInterval ==
  \A i \in DOMAIN posBlend :
    LET b == posBlend[i]
    IN /\ b.dt > 0 /\ b.cutoff > 0
       /\ RatLess(<<0, 1>>, b.weight)
       /\ RatLess(b.weight, <<1, 1>>)
       /\ \A k \in 1..3 :
            /\ Lo(b.prev[k], b.value[k]) <= b.out[k]
            /\ b.out[k] <= Hi(b.prev[k], b.value[k])

\* a blend that moved the stored value part of the way to the new sample
C9_Witness ==
  \E i \in DOMAIN posBlend :
    /\ posBlend[i].prev[1] < posBlend[i].out[1]
    /\ posBlend[i].out[1] < posBlend[i].value[1]
    /\ fout.op = "filterPosition"
    /\ fout.position = posBlend[i].out

\* C23: a filter call on a LowPassFilter whose lastValue is empty (fresh, or
\* after reset in any state) returns its value unchanged and stores it,
\* whatever the earlier inputs, the cutoff and the time step; reset empties
\* lastValue.
C23_FirstCallReturnsValue ==
  /\ (lpLast.op = "filter" /\ lpLast.first)
       => (lpLast.out = lpLast.value /\ lp.lastValue = lpLast.value)
  /\ lpLast.op = "reset" => lp = NewLowPassFilter
  /\ lpLast.op = "filter" => lp.lastValue = lpLast.out

\* a filter blended with its history, was reset, and its next call returned
\* a value different from the one returned before the reset
C23_Witness ==
  /\ lpLast.op = "filter" /\ lpLast.first /\ lpLast.blended
  /\ lpLast.before \notin {0 - 300, 0, 500, S}
  /\ lpLast.value = S /\ lpLast.out = S /\ lp.lastValue = S

\* C22 (as claimed): every blend of LowPassFilter.filter with its history
\* uses the weight a = dt / (dt + RC), RC = 1 / (2 * pi * cutoff), for the new
\* sample, and stores and returns a * value + (1 - a) * lastValue.
C22_UpdateRule ==
  \A i \in DOMAIN posBlend :
    LET b == posBlend[i]
        RC == RatInv(RatMul(<<b.cutoff, S>>, <<2 * PiNum, PiDen>>))
        a == RatDiv(<<b.dt, 1>>, RatAddInt(RC, b.dt))
    IN /\ b.weight = a
       /\ \A k \in 1..3 :
            b.out[k] = (a[1] * b.value[k] + (a[2] - a[1]) * b.prev[k]) \div a[2]

\* what the code does instead: the weight of the new sample is RC / (RC + dt),
\* the complement of the claimed one, and the blend is made with that weight
C22_ComplementWeight ==
  \A i \in DOMAIN posBlend :
    LET b == posBlend[i]
        RC == RatInv(RatMul(<<b.cutoff, S>>, <<2 * PiNum, PiDen>>))
        a == RatDiv(<<b.dt, 1>>, RatAddInt(RC, b.dt))
    IN /\ b.weight = Rat(a[2] - a[1], a[2])
       /\ \A k \in 1..3 :
            b.out[k] = ((a[2] - a[1]) * b.value[k] + a[1] * b.prev[k]) \div a[2]

----------------------------------------------------------------------------
(* Properties of the pair of components *)

\* C14: cross-target isolation. A targetFound, targetLost or tick on one
\* component leaves the other component (its filter state, snapNextFrame,
\* visibility and smoothed pose) exactly as it was.
C14_CrossTargetIsolation ==
  [][\A i \in 1..2 : BoundTo[i] # actor' => components'[i] = components[i]]_vars

\* component 2 snapped to PoseA and was lost; then component 1 was found,
\* snapped to PoseC and blended toward PoseA, and component 2 is untouched
C14_Witness ==
  /\ actor = 1 /\ nPairOps = 6
  /\ components[1].isVisible /\ ~components[1].snapNextFrame
  /\ components[1].quaternion > 0 /\ components[1].quaternion < 400
  /\ components[2].position = PoseA.position /\ components[2].quaternion = 0
  /\ ~components[2].isVisible /\ ~components[2].snapNextFrame
  /\ FilterCleared(components[2].filter)

----------------------------------------------------------------------------
(* Properties of two filter runs *)

C15_IndependentWhenBetaZero ==
  flt.beta = 0 => fout.position[twinAxis] = fout2.position[twinAxis]

----------------------------------------------------------------------------
(* Properties of the recorder *)

\* a step made by a call of the given recorder method
IsRecCall(op) == lastCall'.n = nRecOps + 1 /\ lastCall'.op = op

\* C17 (as claimed): the promise returned by stopRecording never rejects,
\* and it resolves with a blob made of exactly the non-empty chunks delivered
\* since the recording started, whichever 'stop' callback runs first.
C17_StopReturnsRecording ==
  /\ promise.state # "rejected"
  /\ promise.state = "resolved" => promise.blob = delivered

\* what the code keeps: a promise that does resolve carries the delivered chunks
C17_ResolvedBlobIsDelivered ==
  promise.state = "resolved" => promise.blob = delivered

\* C18: startRecording called while isRecording fails with 'Recording
\* already in progress' and stopRecording called while not recording fails
\* with 'No recording in progress'; neither changes any field of the recorder.
C18_CallGuards ==
  [][/\ (IsRecCall("startRecording") /\ rec.isRecording)
          => /\ lastCall'.outcome = "Recording already in progress"
             /\ rec' = rec
     /\ (IsRecCall("stopRecording") /\ ~rec.isRecording)
          => /\ lastCall'.outcome = "No recording in progress"
             /\ rec' = rec]_vars

\* both guards have fired, the second during a recording that holds a chunk
C18_Witness ==
  /\ seenErrors = {"No recording in progress", "Recording already in progress"}
  /\ lastCall.outcome = "Recording already in progress"
  /\ rec.isRecording /\ rec.mediaRecorder /\ rec.recordedChunks = <<2>>

\* C31 (as claimed): after a completed cycle of startRecording, stopRecording
\* and the recorder's stop callbacks, a startRecording call on the idle
\* recorder succeeds (or is on its way, awaiting the microphone), without
\* another init.
C31_RecordingRepeatable ==
  [][(IsRecCall("startRecording") /\ mr = "inactive" /\ ~rec.isRecording /\ recPc = "idle")
       => lastCall'.outcome \in {"started", "pending"}]_vars

\* what the code does instead: once a cycle is complete no later step starts
\* a recording again, and the mix canvas made by init is gone for good
C31_NeverAgain ==
  [][mr = "inactive" => (mr' = "inactive" /\ ~rec'.isRecording /\ ~rec'.mixCanvas)]_vars

\* C32 (as claimed): a startRecording call that arrives while an earlier one
\* is still awaiting its audio setup fails with 'Recording already in
\* progress' and changes no field of the recorder.
C32_SecondStartRejected ==
  [][(IsRecCall("startRecording") /\ recPc = "awaitMic")
       => (lastCall'.outcome = "Recording already in progress" /\ rec' = rec)]_vars

\* what the code does instead: such a call passes the isRecording guard,
\* fails in setupAudioMixing and runs cleanup, so that the suspended first
\* call finds the mix canvas gone
C32_SecondStartCleansUp ==
  [][(IsRecCall("startRecording") /\ recPc = "awaitMic")
       => /\ lastCall'.outcome = "InvalidStateError"
          /\ rec' = cleanup(rec)
          /\ ~rec'.mixCanvas /\ ~rec'.audioContext]_vars

\* C32, the standalone script: at most one of the MediaRecorders the
\* script has created is recording
C32_OneScriptRecorder ==
  Cardinality({i \in DOMAIN script.recorders : script.recorders[i].state = "recording"}) <= 1

----------------------------------------------------------------------------
(* Properties of the tuning panel on its own *)

\* C34 (as claimed): whatever came before, one click on Toggle Smoothing
\* negates smoothingEnabled and the label shows the new value, and one click
\* on Reset runs resetTuningParams exactly once.
C34_OneClickOneEffect ==
  [][/\ panel'.last = "toggle" /\ panel'.nOps = panel.nOps + 1
          => /\ panel'.tuningParams.smoothingEnabled = ~panel.tuningParams.smoothingEnabled
             /\ panel'.label = toggleLabel(panel'.tuningParams.smoothingEnabled)
     /\ panel'.last = "reset" /\ panel'.nOps = panel.nOps + 1
          => panel'.runs = 1]_vars

\* what the code does instead: every Reset click doubles the listeners on
\* both buttons, so after any Reset click a Toggle click runs an even number
\* of negations and changes nothing, and a Reset click runs
\* resetTuningParams as many times as there are listeners; only the label
\* always shows the value
C34_ListenersDouble ==
  [][/\ panel'.last = "toggle" /\ panel'.nOps = panel.nOps + 1
          => /\ (panel'.tuningParams.smoothingEnabled = ~panel.tuningParams.smoothingEnabled)
                  <=> panel.nListeners = 1
             /\ panel'.label = toggleLabel(panel'.tuningParams.smoothingEnabled)
     /\ panel'.last = "reset" /\ panel'.nOps = panel.nOps + 1
          => /\ panel'.runs = panel.nListeners
             /\ panel'.nListeners = 2 * panel.nListeners]_vars

----------------------------------------------------------------------------
(* Properties of the singletons *)

\* C33 (as claimed): a non-null global recorder has webglCanvas, cameraVideo
\* and mixCanvas set, and a non-null global ARUI has run all setup steps of
\* init
C33_NeverHalfInitialised ==
  /\ getRecorder(globals)
       => (globals.arRecorder.webglCanvas /\ globals.arRecorder.cameraVideo
             /\ globals.arRecorder.mixCanvas)
  /\ getUI(globals) => globals.arUI.steps = UISetupSteps

\* what the code does instead: the global is assigned before init runs, so
\* it is non-null after the first call whether init threw or not, and no
\* later call changes the instance or runs init again
C33_FirstCallDecides ==
  [][/\ globals.arRecorder.exists => globals'.arRecorder = globals.arRecorder
     /\ globals.arUI.exists => globals'.arUI = globals.arUI
     /\ globals'.last.op = "initRecorder" => globals'.arRecorder.exists
     /\ globals'.last.op = "initUI" => globals'.arUI.exists]_vars

----------------------------------------------------------------------------
(* Properties of the standalone recorder script *)

\* C35 (as claimed): while the script's recorder is recording, draw is
\* scheduled for the next animation frame, and every animation frame of the
\* recording has painted the mix canvas
C35_CompositingWhileRecording ==
  /\ ScriptRecording(script) => script.scheduled > 0
  /\ script.painted = script.frames

\* what the code does instead: draw runs once per startRecording, before the
\* MediaRecorder of that recording exists, so it never paints a frame and
\* never schedules itself
C35_NeverComposites == script.painted = 0 /\ script.scheduled = 0

----------------------------------------------------------------------------
(* Properties of the start overlay *)

C21_OnlySetupListenerUnguarded ==
  /\ \A e \in playedBy : ~e.unlocked => e.by \subseteq {"setupTargetListeners"}
  /\ lastMarker = "targetLost" => video = "paused"

====
